---- MODULE Spec2Model ----
(***************************************************************************)
(* Model of the job-scrapper page-traversal engine:                        *)
(*   service/agent_service.py  (PaginationHandler, URLTracker,             *)
(*                              TrackedJobScraper)                         *)
(*   utils/text_processor.py   (TextProcessor)                             *)
(*   main.py                   (main_scrapper: the loop over seed URLs)    *)
(*   app.py                    (process_urls_with_agent, cancel_task,      *)
(*                              run_scraping_task, start_scraping)         *)
(*   service/batch_executor_service.py, service/task_manager_service.py    *)
(*                             (the batch workers and their task records)  *)
(*                                                                         *)
(* A URL or a text is a sequence of tokens; every token stands for the     *)
(* literal substring it spells ("https:", "/", "a.com", ...), so           *)
(* the string operations of the code (lower, rstrip, startswith, replace,  *)
(* urlparse, urlunparse) are computed on the token sequence.  The tokens   *)
(* "w" and "." are single characters, so replace("www.", "") is computed   *)
(* character by character; no other token holds a "w".                     *)
(***************************************************************************)
EXTENDS Integers, Sequences, FiniteSets, TLC

\* ------------------------------------------------------------------ bounds
\* PaginationConfig.max_clicks (default 10), scaled down
max_clicks == 2
\* most jobs the classifier reports for one domain (bounds the classifier)
MaxJobs == 2
\* domains handed to one agent (urls_chunk)
MaxDomains == 2
\* split_into_chunks chunk_size (default 150000 characters), scaled down
ChunkSize == 3
\* append_non_overlapping overlap_check_size (default 100 characters), scaled down
OverlapCheckSize == 2

\* most keys a URLTracker that is called directly holds
MaxMarks == 2
\* longest text handed to TextProcessor directly
MaxTextLen == 4
\* most tasks the start endpoints create
MaxTasks == 2
\* largest num_agents of a start request
MaxAgents == 2
\* URLs of the batch a BatchExecutor runs
MaxBatchTasks == 3
\* num_workers of the batch
MaxWorkers == 2
\* batches the /scrape/batch endpoint creates
MaxBatches == 2

\* ------------------------------------------------------- program constants
\* JobScraperConfig.max_navigation
max_navigation == 2

\* ------------------------------------------------------------ URL strings
\* the tokens urlparse reads as a scheme
SchemeTokens == {"https:", "http:", "ftp:"}

\* the tokens whose spelling starts with "http"
HttpTokens == {"https:", "http:"}

\* str.lower() on one token
LowerTok(t) ==
    CASE t = "JOBS" -> "jobs"
      [] t = "W" -> "w"
      [] t = "A.COM" -> "a.com"
      [] OTHER -> t

lower(s) == [i \in 1..Len(s) |-> LowerTok(s[i])]

RECURSIVE rstrip_slash(_)
rstrip_slash(s) ==
    IF s # <<>> /\ s[Len(s)] = "/"
    THEN rstrip_slash(SubSeq(s, 1, Len(s) - 1))
    ELSE s

\* str.startswith("/")
startswith_slash(s) == s # <<>> /\ s[1] = "/"

\* str.startswith("http")
startswith_http(s) == s # <<>> /\ s[1] \in HttpTokens

\* index of the first token of s satisfying the delimiter test, Len(s)+1 if none
RECURSIVE FirstIdx(_, _, _)
FirstIdx(s, i, D) ==
    IF i > Len(s) THEN Len(s) + 1
    ELSE IF s[i] \in D THEN i
    ELSE FirstIdx(s, i + 1, D)

NetlocDelims == {"/", "?q", "?p", "#f"}

\* urllib.parse.urlparse (params are not modelled: no ';' token exists)
urlparse(s) ==
    LET hasScheme == s # <<>> /\ s[1] \in SchemeTokens
        scheme == IF hasScheme THEN <<s[1]>> ELSE <<>>
        r1 == IF hasScheme THEN Tail(s) ELSE s
        hasNetloc == Len(r1) >= 2 /\ r1[1] = "/" /\ r1[2] = "/"
        r2 == IF hasNetloc THEN SubSeq(r1, 3, Len(r1)) ELSE r1
        nEnd == FirstIdx(r2, 1, NetlocDelims)
        netloc == IF hasNetloc THEN SubSeq(r2, 1, nEnd - 1) ELSE <<>>
        r3 == IF hasNetloc THEN SubSeq(r2, nEnd, Len(r2)) ELSE r1
        fIdx == FirstIdx(r3, 1, {"#f"})
        r4 == SubSeq(r3, 1, fIdx - 1)
        fragment == SubSeq(r3, fIdx, Len(r3))
        qIdx == FirstIdx(r4, 1, {"?q", "?p"})
        path == SubSeq(r4, 1, qIdx - 1)
        query == SubSeq(r4, qIdx, Len(r4))
    IN [scheme |-> scheme, netloc |-> netloc, path |-> path,
        query |-> query, fragment |-> fragment]

\* urllib.parse.urlunparse((scheme, netloc, path, "", "", ""))
urlunparse(scheme, netloc, path) ==
    LET dbl == Len(path) >= 2 /\ path[1] = "/" /\ path[2] = "/"
        withNet == IF netloc # <<>> \/ (scheme # <<>> /\ ~dbl)
                   THEN <<"/", "/">> \o netloc
                        \o (IF path # <<>> /\ path[1] # "/"
                            THEN <<"/">> \o path ELSE path)
                   ELSE path
    IN scheme \o withNet

\* the characters of "www."
WWW == <<"w", "w", "w", ".">>

\* str.replace("www.", ""): every non-overlapping occurrence, left to right
RECURSIVE remove_www(_)
remove_www(s) ==
    IF Len(s) < 4 THEN s
    ELSE IF SubSeq(s, 1, 4) = WWW THEN remove_www(SubSeq(s, 5, Len(s)))
    ELSE <<s[1]>> \o remove_www(Tail(s))

\* URLTracker.normalize_url
normalize_url(u) ==
    LET parsed == urlparse(rstrip_slash(lower(u)))
    IN urlunparse(parsed.scheme, remove_www(parsed.netloc),
                  rstrip_slash(parsed.path))

\* TextProcessor.normalize_url(url, domain)
TP_normalize_url(u, domain) ==
    IF u = <<>> THEN <<>>
    ELSE IF startswith_http(u) THEN u
    ELSE IF startswith_slash(u) THEN <<"https:", "/", "/">> \o domain \o u
    ELSE <<"https:", "/", "/">> \o domain \o <<"/">> \o u

\* URLTracker.extract_domain
extract_domain(u) ==
    IF u = <<>> THEN <<>>
    ELSE LET withScheme == IF Len(u) >= 3 /\ u[1] \in SchemeTokens
                              /\ u[2] = "/" /\ u[3] = "/"
                           THEN u ELSE <<"https:", "/", "/">> \o u
         IN lower(urlparse(withScheme).netloc)

\* URLTracker.normalize_full_path
normalize_full_path(u, domain) ==
    IF startswith_slash(u) /\ domain # <<>>
    THEN rstrip_slash(domain) \o u
    ELSE u

\* --------------------------------------------------------------- page text
\* a text is a sequence of characters
NL == "\n"

\* last n characters of s (s[-n:])
last_chars(s, n) == IF Len(s) <= n THEN s ELSE SubSeq(s, Len(s) - n + 1, Len(s))

\* str.find: 0-based position of the first occurrence of seg in s, -1 if none
RECURSIVE find_from(_, _, _)
find_from(s, seg, pos) ==
    IF pos + Len(seg) > Len(s) THEN -1
    ELSE IF SubSeq(s, pos + 1, pos + Len(seg)) = seg THEN pos
    ELSE find_from(s, seg, pos + 1)

find(s, seg) == find_from(s, seg, 0)

\* TextProcessor.append_non_overlapping
append_non_overlapping(existing, new, overlap_check_size) ==
    IF existing = <<>> THEN new
    ELSE IF new = <<>> THEN existing
    ELSE LET overlap_segment == last_chars(existing, overlap_check_size)
             overlap_pos == find(new, overlap_segment)
         IN IF overlap_pos # -1
            THEN existing \o SubSeq(new, overlap_pos + Len(overlap_segment) + 1, Len(new))
            ELSE existing \o <<NL, NL>> \o new

\* str.rfind(NL, start, end): 0-based position of the last NL in s[start:end]
RECURSIVE rfind_nl(_, _, _)
rfind_nl(s, start, end) ==
    IF end <= start THEN -1
    ELSE IF s[end] = NL THEN end - 1
    ELSE rfind_nl(s, start, end - 1)

\* the while loop of TextProcessor.split_into_chunks, from 0-based start
RECURSIVE split_from(_, _, _)
split_from(text, start, chunk_size) ==
    IF start >= Len(text) THEN <<>>
    ELSE LET end0 == start + chunk_size
             last_newline == IF end0 < Len(text) THEN rfind_nl(text, start, end0) ELSE -1
             end == IF end0 < Len(text) /\ last_newline > start
                    THEN last_newline + 1
                    ELSE IF end0 < Len(text) THEN end0 ELSE Len(text)
         IN <<SubSeq(text, start + 1, end)>> \o split_from(text, end, chunk_size)

split_into_chunks_mut(text, chunk_size) ==
    IF Len(text) <= chunk_size THEN <<text>>
    ELSE [i \in 1..((Len(text) + chunk_size - 1) \div chunk_size) |->
             SubSeq(text, (i - 1) * chunk_size + 1,
                    IF i * chunk_size < Len(text) THEN i * chunk_size ELSE Len(text))]

\* TextProcessor.split_into_chunks
split_into_chunks(text, chunk_size) ==
    IF Len(text) <= chunk_size THEN <<text>>
    ELSE split_from(text, 0, chunk_size)

\* ------------------------------------------------------------ the universe
SeedA    == <<"https:", "/", "/">> \o WWW \o <<"a.com", "/", "jobs", "/">>
SeedA2   == <<"https:", "/", "/", "a.com", "/", "JOBS", "?q">>
PageOpen == <<"https:", "/", "/", "a.com", "/", "open">>
AtsPage  == <<"https:", "/", "/", "b.com", "/", "apply">>
RelOpen  == <<"/", "open">>
JobRel   == <<"/", "job1">>
JobAbs   == <<"https:", "/", "/", "b.com", "/", "job2">>

\* what the search step of main_scrapper may hand to the seed loop
SeedLists == {<<SeedA>>, <<SeedA, SeedA2>>, <<SeedA, PageOpen>>}

\* next_action_target of the classifier
NavTargets ==
    {[url |-> <<>>,    link_text |-> ""],
     [url |-> <<>>,    link_text |-> "Careers"],
     [url |-> RelOpen, link_text |-> ""],
     [url |-> SeedA,   link_text |-> ""],
     [url |-> SeedA,   link_text |-> "Careers"],
     [url |-> SeedA2,  link_text |-> "Careers"],
     [url |-> AtsPage, link_text |-> ""]}

NoUrlJob == [title |-> "t0", job_url |-> <<>>]
Job1     == [title |-> "t1", job_url |-> JobRel]
Job2     == [title |-> "t2", job_url |-> JobAbs]

\* jobs_listed_on_page of the classifier
JobLists == {<<>>, <<Job1>>, <<NoUrlJob, Job1>>, <<Job1, Job2>>}

Categories == {"not_job_related", "single_job_posting", "jobs_listed", ""}

\* the fields of analysis.response the main loop reads
ResponseFields ==
    [page_category : Categories,
     next_action : {"navigate", "scrape_jobs"},
     next_action_target : NavTargets,
     jobs_listed_on_page : JobLists,
     is_paginated_page : BOOLEAN,
     has_more_pages : BOOLEAN]

\* the branch of the main loop that reads next_action_target
reads_target(r) ==
    /\ r.page_category \notin {"not_job_related", "single_job_posting"}
    /\ r.next_action = "navigate"

\* the branch of the main loop that reads is_paginated_page and has_more_pages
reads_paging(r) ==
    r.page_category = "jobs_listed" /\ r.next_action # "navigate"

\* analysis.response of a listing analysis: every combination of category,
\* next_action and jobs, with every target on the branch that reads the
\* target and every paging flag on the branch that reads the flags; on the
\* other branches these fields are absent (.get() yields its default)
Responses ==
    {r \in ResponseFields :
        /\ reads_target(r) \/ r.next_action_target = [url |-> <<>>, link_text |-> ""]
        /\ reads_paging(r) \/ (~r.is_paginated_page /\ ~r.has_more_pages)}

\* AnalysisResult of JobPageAnalyzer.analyze
AnalysisFailed == [success |-> FALSE, error |-> "api error"]
AnalysisOk(r) == [success |-> TRUE, response |-> r]
NoAnalysis == [success |-> "none"]

\* texts DOMContentExtractor.extract may return
ExtractTexts == {<<"x">>, <<"x", "y">>}

\* the text of a job detail page: pages differ in their text
PageText(u) == IF u # <<>> /\ u[Len(u)] = "job2" THEN <<"x", "y">> ELSE <<"x">>

\* where a click may leave the browser: on the same page or on a new one
ClickLandings(cur) == {cur, PageOpen}

None == "None"

\* JobEntry.details before scrape_job_details sets it (details = None)
NoDetails == [payload |-> None]

\* JobEntry(title, url)
JobEntry(title, u) == [title |-> title, url |-> u, details |-> NoDetails]

NoResult == [kind |-> "none"]

\* no URLTracker or TextProcessor method was called directly yet
NoCall == [op |-> "none"]

ScrapeResult_mut(js, vis, err, ok) ==
    [kind |-> "ScrapeResult",
     jobs |-> js,
     visited_urls |-> vis,
     job_detail_urls |-> [k \in 1..Len(js) |-> js[k].url],
     error |-> err,
     success |-> ok]

\* ScrapeResult(jobs, visited_urls, job_detail_urls, error, message, success);
\* every return builds job_detail_urls as [j.url for j in all_jobs if j.url]
ScrapeResult(js, vis, err, ok) ==
    [kind |-> "ScrapeResult",
     jobs |-> js,
     visited_urls |-> vis,
     job_detail_urls |-> [k \in 1..Len(SelectSeq(js, LAMBDA j : j.url # <<>>))
                            |-> SelectSeq(js, LAMBDA j : j.url # <<>>)[k].url],
     error |-> err,
     success |-> ok]

\* ------------------------------------------------------------------ state
VARIABLES
    pc,                 \* position of the agent coroutine
    cancelled,          \* tasks_db[task_id]["cancelled"]
    agent_exit,         \* how process_urls_with_agent ended
    urls_idx,           \* index of the for loop over urls_chunk
    completed_urls,     \* task_data["completed_urls"]
    failed_urls,        \* task_data["failed_urls"]
    job_filtered,       \* main_scrapper: the seed URLs of the domain
    seed_idx,           \* main_scrapper: index of the for loop over job_filtered
    all_scraped_jobs,   \* main_scrapper: the JobEntry list of the domain
    visited,            \* URLTracker._visited
    scraped_jobs,       \* URLTracker._scraped_jobs
    current_visited,    \* TrackedJobScraper._current_visited
    url,                \* scrape_jobs: url
    nav_count,          \* scrape_jobs: nav_count
    all_jobs,           \* scrape_jobs: all_jobs
    analysis,           \* scrape_jobs: analysis of the current iteration
    browser_url,        \* the URL the browser page is on (page.get_url())
    click_count,        \* PaginationHandler: click_count
    combined_text,      \* handle_load_more: combined_text
    contents,           \* scrape_jobs: contents (the chunks to re-analyze)
    chunk_idx,          \* scrape_jobs: index of the loop over contents
    job_i,              \* scrape_job_details: index of the loop over jobs
    text_extracted,     \* scrape_job_details: text_extracted ("unbound" before its first assignment)
    skip_already_scraped, \* scrape_job_details: parameter
    details_returned,   \* scrape_job_details returned its list
    result,             \* the ScrapeResult of the last scrape_jobs call
    escaped,            \* the function an exception escaped from, "none" if none
    analyze_calls,      \* analyzer calls made by the main loop of the current scrape_jobs call
    call,               \* the last direct call of a URLTracker or TextProcessor method
    tasks_db,           \* app.py: tasks_db, the task records in creation order
    uploads,            \* app.py: start_scraping_from_file requests awaiting read_spreadsheet
    run_pc,             \* app.py: position of run_scraping_task, per task
    running_agent_tasks, \* app.py: running_agent_tasks, the agents of each task
    batch_tasks,        \* TaskManager.tasks: the task documents of the batch
    workers,            \* BatchExecutor._workers: the worker coroutines
    running,            \* BatchExecutor._running
    cancel_requested,   \* TaskManager._cancel_requested
    batch,              \* TaskManager.batches: the document of the latest batch
    active_batch_id,    \* TaskManager._active_batch_id is set
    current_workers,    \* ResourceManager._current_workers
    exec_pc             \* position of the execute_batch task

agentVars   == <<cancelled, agent_exit, urls_idx, completed_urls, failed_urls>>
callerVars  == <<job_filtered, seed_idx, all_scraped_jobs>>
trackerVars == <<visited, scraped_jobs>>
scrapeVars  == <<url, nav_count, all_jobs, analysis, analyze_calls>>
handlerVars == <<click_count, combined_text, contents, chunk_idx>>
detailVars  == <<job_i, text_extracted, skip_already_scraped, details_returned>>
appVars     == <<tasks_db, uploads, run_pc, running_agent_tasks>>
batchVars   == <<batch_tasks, workers, running, cancel_requested, batch,
                 active_batch_id, current_workers, exec_pc>>
serviceVars == <<appVars, batchVars>>

vars == <<pc, cancelled, agent_exit, urls_idx, completed_urls, failed_urls,
          job_filtered, seed_idx, all_scraped_jobs, visited, scraped_jobs,
          current_visited, url, nav_count, all_jobs, analysis, browser_url,
          click_count, combined_text, contents, chunk_idx, job_i,
          text_extracted, skip_already_scraped, details_returned, result,
          escaped, analyze_calls, call, tasks_db, uploads, run_pc,
          running_agent_tasks, batch_tasks, workers, running, cancel_requested,
          batch, active_batch_id, current_workers, exec_pc>>

\* the agent before its first step, with a new tracker and a new scraper
InitEngine ==
    /\ pc = "agent_top"
    /\ cancelled = FALSE
    /\ agent_exit = "running"
    /\ urls_idx = 1
    /\ completed_urls = {}
    /\ failed_urls = {}
    /\ job_filtered = <<>>
    /\ seed_idx = 1
    /\ all_scraped_jobs = <<>>
    /\ visited = {}
    /\ scraped_jobs = {}
    /\ current_visited = <<>>
    /\ url = <<>>
    /\ nav_count = 0
    /\ all_jobs = <<>>
    /\ analysis = NoAnalysis
    /\ browser_url = <<>>
    /\ click_count = 0
    /\ combined_text = <<>>
    /\ contents = <<>>
    /\ chunk_idx = 1
    /\ job_i = 1
    /\ text_extracted = "unbound"
    /\ skip_already_scraped = FALSE
    /\ details_returned = FALSE
    /\ result = NoResult
    /\ escaped = "none"
    /\ analyze_calls = 0

\* no task was created yet; execute_batch has created the tasks of the batch
\* and started its workers
InitBatch ==
    /\ batch_tasks = [t \in 1..MaxBatchTasks |-> [status |-> "pending", error |-> None]]
    /\ workers = [w \in 1..MaxWorkers |-> [st |-> "loop_top", task |-> 0]]
    /\ running = TRUE
    /\ cancel_requested = FALSE
    /\ batch = [id |-> 1, status |-> "running", pending_urls |-> MaxBatchTasks,
                running_urls |-> 0, completed_urls |-> 0, failed_urls |-> 0]
    /\ active_batch_id = TRUE
    /\ current_workers = MaxWorkers
    /\ exec_pc = "gather"

InitService ==
    /\ tasks_db = <<>>
    /\ uploads = 0
    /\ run_pc = <<>>
    /\ running_agent_tasks = <<>>
    /\ InitBatch

Init ==
    /\ InitEngine
    /\ call = NoCall
    /\ InitService

\* ------------------------------------------------------------- URLTracker
\* URLTracker.is_visited
is_visited(u) == normalize_url(u) \in visited

\* URLTracker.should_skip
should_skip(u) == normalize_url(u) \in visited \/ normalize_url(u) \in scraped_jobs

mark_visited_mut(u) == visited \cup {u}

\* URLTracker.mark_visited: the new value of _visited
mark_visited(u) == visited \cup {normalize_url(u)}

\* URLTracker.mark_job_scraped, applied to every non-empty url of a job list
mark_jobs_scraped(js) ==
    scraped_jobs \cup {normalize_url(js[k].url) : k \in {n \in 1..Len(js) : js[n].url # <<>>}}

\* ------------------------------------------------- locals of a finished call
ResetHandler ==
    /\ click_count' = 0
    /\ combined_text' = <<>>
    /\ contents' = <<>>
    /\ chunk_idx' = 1

ResetScrape ==
    /\ url' = <<>>
    /\ nav_count' = 0
    /\ all_jobs' = <<>>
    /\ analysis' = NoAnalysis
    /\ analyze_calls' = 0
    /\ ResetHandler

ResetDetails ==
    /\ job_i' = 1
    /\ text_extracted' = "unbound"
    /\ skip_already_scraped' = FALSE

\* An exception leaves fn: main_scrapper has no handler (try/finally), so it
\* reaches the except clause of process_urls_with_agent, which records the
\* domain as failed and goes on with the next url of the chunk.
Escape(fn) ==
    /\ escaped' = fn
    /\ IF cancelled
       THEN /\ pc' = "agent_done"
            /\ agent_exit' = "returned"
            /\ UNCHANGED <<failed_urls, urls_idx>>
       ELSE /\ pc' = "agent_top"
            /\ failed_urls' = failed_urls \cup {urls_idx}
            /\ urls_idx' = urls_idx + 1
            /\ UNCHANGED agent_exit
    /\ ResetScrape
    /\ ResetDetails
    /\ UNCHANGED <<call, serviceVars, cancelled, completed_urls, callerVars, details_returned>>

\* scrape_jobs returns r to the seed loop of main_scrapper, which extends
\* all_scraped_jobs with r.jobs and moves to the next seed.
ReturnResult(r) ==
    /\ result' = r
    /\ all_scraped_jobs' = all_scraped_jobs \o r.jobs
    /\ seed_idx' = seed_idx + 1
    /\ pc' = "seed_loop"
    /\ ResetScrape
    /\ UNCHANGED <<call, serviceVars, agentVars, job_filtered, detailVars, escaped>>

\* ---------------------------------------------- process_urls_with_agent
\* Top of the for loop over urls_chunk; when a domain is left, main_scrapper
\* starts on it: a new tracker, a new scraper, the seeds found by the search.
AgentTop ==
    /\ pc = "agent_top"
    /\ IF cancelled \/ urls_idx > MaxDomains
       THEN /\ pc' = "agent_done"
            /\ agent_exit' = "returned"
            /\ UNCHANGED <<callerVars, trackerVars, current_visited, browser_url,
                           result, escaped, details_returned>>
       ELSE /\ \E seeds \in SeedLists \cup {<<>>} : job_filtered' = seeds
            /\ seed_idx' = 1
            /\ all_scraped_jobs' = <<>>
            /\ visited' = {}
            /\ scraped_jobs' = {}
            /\ current_visited' = <<>>
            /\ browser_url' = <<>>
            /\ result' = NoResult
            /\ escaped' = "none"
            /\ details_returned' = FALSE
            /\ pc' = "seed_loop"
            /\ UNCHANGED agent_exit
    /\ UNCHANGED <<call, serviceVars, cancelled, urls_idx, completed_urls, failed_urls, scrapeVars,
                   handlerVars, job_i, text_extracted, skip_already_scraped>>

\* ------------------------------------------------------- main_scrapper
\* for url in job_filtered: if tracker.should_skip(url): continue
SeedSkip ==
    /\ pc = "seed_loop"
    /\ seed_idx <= Len(job_filtered)
    /\ should_skip(job_filtered[seed_idx])
    /\ seed_idx' = seed_idx + 1
    /\ UNCHANGED <<pc, call, serviceVars, agentVars, job_filtered, all_scraped_jobs, trackerVars,
                   current_visited, scrapeVars, browser_url, handlerVars,
                   detailVars, result, escaped>>

\* ------------------------------------------ TrackedJobScraper.scrape_jobs
skipped_result_mut(seed) == ScrapeResult(<<>>, <<seed>>, None, TRUE)

\* if self._tracker.should_skip(url): return ScrapeResult(jobs=[], ...)
skipped_result(seed) == ScrapeResult(<<>>, <<>>, None, TRUE)

\* The call up to the first iteration of the main loop: the skip test and the
\* seed navigation (_navigate).
ScrapeJobsCall ==
    /\ pc = "seed_loop"
    /\ seed_idx <= Len(job_filtered)
    /\ LET seed == job_filtered[seed_idx] IN
       IF should_skip(seed)
       THEN /\ current_visited' = <<>>
            /\ ReturnResult(skipped_result(seed))
            /\ UNCHANGED <<trackerVars, browser_url>>
       ELSE \/ \* page.goto(url) raises
               /\ current_visited' = <<>>
               /\ Escape("scrape_jobs")
               /\ UNCHANGED <<trackerVars, browser_url, result>>
            \/ /\ browser_url' = seed
               /\ visited' = mark_visited(seed)
               /\ current_visited' = <<seed>>
               /\ url' = seed
               /\ nav_count' = 0
               /\ all_jobs' = <<>>
               /\ analyze_calls' = 0
               /\ pc' = "main_loop"
               /\ UNCHANGED <<call, serviceVars, agentVars, callerVars, scraped_jobs, analysis,
                              handlerVars, detailVars, result, escaped>>

\* while True: content = extractor.extract(); analysis = analyzer.analyze(...)
MainLoopAnalyze ==
    /\ pc = "main_loop"
    /\ \/ \* extractor.extract() raises
          /\ Escape("scrape_jobs")
          /\ UNCHANGED <<trackerVars, current_visited, browser_url, result>>
       \/ /\ \E a \in {AnalysisFailed} \cup {AnalysisOk(r) : r \in Responses} :
                /\ a.success =>
                     Len(all_scraped_jobs) + Len(a.response.jobs_listed_on_page) <= MaxJobs
                /\ analysis' = a
          /\ analyze_calls' = analyze_calls + 1
          /\ pc' = "analyzed"
          /\ UNCHANGED <<call, serviceVars, agentVars, callerVars, trackerVars, current_visited, url,
                         nav_count, all_jobs, browser_url, handlerVars, detailVars,
                         result, escaped>>

failure_result_mut == ScrapeResult(all_jobs, current_visited, None, TRUE)

\* ScrapeResult(jobs=all_jobs, ..., error=str(analysis.error), success=False)
failure_result == ScrapeResult(all_jobs, current_visited, analysis.error, FALSE)

\* if not analysis.success: return ScrapeResult(..., success=False)
BranchAnalysisFailed ==
    /\ pc = "analyzed"
    /\ analysis.success = FALSE
    /\ ReturnResult(failure_result)
    /\ UNCHANGED <<trackerVars, current_visited, browser_url>>

BreakLoop_mut ==
    /\ ReturnResult(ScrapeResult(all_jobs, current_visited, None, FALSE))
    /\ UNCHANGED <<trackerVars, current_visited, browser_url>>

\* the break statements of the main loop lead to the final return
BreakLoop ==
    /\ ReturnResult(ScrapeResult(all_jobs, current_visited, None, TRUE))
    /\ UNCHANGED <<trackerVars, current_visited, browser_url>>

\* if page_category == "not_job_related": break
BranchNotJobRelated ==
    /\ pc = "analyzed"
    /\ analysis.success = TRUE
    /\ analysis.response.page_category = "not_job_related"
    /\ BreakLoop

\* the JobEntry list of a single_job_posting page: job_url defaults to url
single_job_entries(js, u) ==
    [k \in 1..Len(js) |->
        JobEntry(js[k].title, IF js[k].job_url # <<>> THEN js[k].job_url ELSE u)]

listed_job_entries_mut(js) ==
    LET kept == SelectSeq(js, LAMBDA j : j.job_url # <<>>)
    IN [k \in 1..Len(kept) |-> JobEntry(kept[k].title, kept[k].job_url)]

\* the JobEntry list of a jobs_listed page or of a chunk: job_url defaults to ""
listed_job_entries(js) ==
    [k \in 1..Len(js) |-> JobEntry(js[k].title, js[k].job_url)]

\* if page_category == "single_job_posting": harvest and return
BranchSingleJob ==
    /\ pc = "analyzed"
    /\ analysis.success = TRUE
    /\ analysis.response.page_category = "single_job_posting"
    /\ LET new == single_job_entries(analysis.response.jobs_listed_on_page, url) IN
         /\ scraped_jobs' = mark_jobs_scraped(new)
         /\ ReturnResult(ScrapeResult(all_jobs \o new, current_visited, None, TRUE))
    /\ UNCHANGED <<visited, current_visited, browser_url>>

nav_limit_reached_mut == nav_count > max_navigation

\* if nav_count >= self._config.max_navigation: break
nav_limit_reached == nav_count >= max_navigation

\* nav_url = TextProcessor.normalize_url(nav_url, urlparse(page_url).netloc)
resolved_nav_url(r) ==
    TP_normalize_url(r.next_action_target.url, urlparse(browser_url).netloc)

\* if nav_url and nav_url != url
has_url_target(r) == resolved_nav_url(r) # <<>> /\ resolved_nav_url(r) # url

\* _navigate(nav_url) inside the main loop, then continue
NavigateTo(u) ==
    /\ nav_count' = nav_count + 1
    /\ url' = u
    /\ browser_url' = u
    /\ visited' = mark_visited(u)
    /\ current_visited' = Append(current_visited, u)
    /\ analysis' = NoAnalysis
    /\ pc' = "main_loop"
    /\ UNCHANGED <<call, serviceVars, agentVars, callerVars, scraped_jobs, all_jobs, analyze_calls,
                   handlerVars, detailVars, result, escaped>>

\* button.click("left"); current_url = page.get_url(); mark_visited; continue
ClickTo(land) ==
    /\ nav_count' = nav_count + 1
    /\ browser_url' = land
    /\ visited' = mark_visited(land)
    /\ current_visited' = Append(current_visited, land)
    /\ analysis' = NoAnalysis
    /\ pc' = "main_loop"
    /\ UNCHANGED <<call, serviceVars, agentVars, callerVars, scraped_jobs, url, all_jobs, analyze_calls,
                   handlerVars, detailVars, result, escaped>>

\* if result.get("next_action") == "navigate": ...
BranchNavigate ==
    /\ pc = "analyzed"
    /\ analysis.success = TRUE
    /\ analysis.response.page_category \notin {"not_job_related", "single_job_posting"}
    /\ analysis.response.next_action = "navigate"
    /\ LET r == analysis.response IN
       IF nav_limit_reached THEN BreakLoop
       ELSE \/ \* get_current_page, get_url, goto, get_element_by_prompt or click raises
               /\ Escape("scrape_jobs")
               /\ UNCHANGED <<trackerVars, current_visited, browser_url, result>>
            \/ IF has_url_target(r)
               THEN IF should_skip(resolved_nav_url(r))
                    THEN BreakLoop
                    ELSE NavigateTo(resolved_nav_url(r))
               ELSE IF r.next_action_target.link_text # ""
                    THEN \/ \* get_element_by_prompt returns None
                            BreakLoop
                         \/ \E land \in ClickLandings(browser_url) : ClickTo(land)
                    ELSE BreakLoop

wants_load_more_mut(r) == r.has_more_pages

\* if not is_paginated_page and has_more_pages
wants_load_more(r) == ~r.is_paginated_page /\ r.has_more_pages

\* if is_paginated_page
wants_pagination(r) == r.is_paginated_page

navigate_tested_first_mut(r) == TRUE

\* the jobs_listed test comes after "if result.get("next_action") ==
\* "navigate"", whose body always ends in continue or break
navigate_tested_first(r) == r.next_action # "navigate"

\* if page_category == "jobs_listed": harvest, then load more, paginate or return
BranchJobsListed ==
    /\ pc = "analyzed"
    /\ analysis.success = TRUE
    /\ analysis.response.page_category = "jobs_listed"
    /\ navigate_tested_first(analysis.response)
    /\ LET r == analysis.response
           new == listed_job_entries(r.jobs_listed_on_page)
       IN IF wants_load_more(r) \/ wants_pagination(r)
          THEN \/ \* the first _extract_content of the handler raises
                  /\ Escape("scrape_jobs")
                  /\ UNCHANGED <<visited, current_visited, browser_url, result>>
                  /\ scraped_jobs' = mark_jobs_scraped(new)
               \/ \E text \in ExtractTexts :
                  /\ all_jobs' = all_jobs \o new
                  /\ scraped_jobs' = mark_jobs_scraped(new)
                  /\ click_count' = 0
                  /\ IF wants_load_more(r)
                     THEN /\ combined_text' = text
                          /\ contents' = <<>>
                          /\ pc' = "load_more"
                     ELSE /\ combined_text' = <<>>
                          /\ contents' = <<text>>
                          /\ pc' = "pagination"
                  /\ analysis' = NoAnalysis
                  /\ UNCHANGED <<call, serviceVars, agentVars, callerVars, visited, current_visited, url,
                                 nav_count, analyze_calls, browser_url, chunk_idx,
                                 detailVars, result, escaped>>
          ELSE /\ scraped_jobs' = mark_jobs_scraped(new)
               /\ ReturnResult(ScrapeResult(all_jobs \o new, current_visited, None, TRUE))
               /\ UNCHANGED <<visited, current_visited, browser_url>>

\* any other category: break
BranchOther ==
    /\ pc = "analyzed"
    /\ analysis.success = TRUE
    /\ analysis.response.page_category \notin
          {"not_job_related", "single_job_posting", "jobs_listed"}
    /\ analysis.response.next_action # "navigate"
    /\ BreakLoop

\* ------------------------------------------------------ PaginationHandler
clicks_left_mut == click_count <= max_clicks

\* while click_count < self._config.max_clicks
clicks_left == click_count < max_clicks

\* what a handler iteration leaves alone
HandlerFrame ==
    UNCHANGED <<call, serviceVars, agentVars, callerVars, trackerVars, current_visited, scrapeVars,
                browser_url, detailVars, result, escaped>>

\* One iteration of the while loop of handle_load_more; when the loop ends,
\* the rest of the method: split_into_chunks, and back in scrape_jobs the
\* loop over all the chunks starts.
LoadMoreStep ==
    /\ pc = "load_more"
    /\ IF clicks_left
       THEN \/ \* get_element_by_prompt, click or _extract_content raises
               /\ Escape("scrape_jobs")
               /\ UNCHANGED <<trackerVars, current_visited, browser_url, result>>
            \/ \* button found and clicked, new content merged
               \E new_content \in ExtractTexts :
                  /\ click_count' = click_count + 1
                  /\ combined_text' =
                        append_non_overlapping(combined_text, new_content, OverlapCheckSize)
                  /\ UNCHANGED <<pc, contents, chunk_idx>>
                  /\ HandlerFrame
            \/ \* no button: break
               /\ click_count' = click_count + 1
               /\ contents' = split_into_chunks(combined_text, ChunkSize)
               /\ chunk_idx' = 1
               /\ pc' = "chunks"
               /\ UNCHANGED combined_text
               /\ HandlerFrame
       ELSE /\ contents' = split_into_chunks(combined_text, ChunkSize)
            /\ chunk_idx' = 1
            /\ pc' = "chunks"
            /\ UNCHANGED <<click_count, combined_text>>
            /\ HandlerFrame

\* One iteration of the while loop of handle_pagination; when the loop ends,
\* scrape_jobs goes on with the loop over contents[1:].
PaginationStep ==
    /\ pc = "pagination"
    /\ IF clicks_left
       THEN \/ \* agent.run or _extract_content raises
               /\ Escape("scrape_jobs")
               /\ UNCHANGED <<trackerVars, current_visited, browser_url, result>>
            \/ \* has_pagination: the next page is extracted
               \E content \in ExtractTexts :
                  /\ click_count' = click_count + 1
                  /\ contents' = Append(contents, content)
                  /\ UNCHANGED <<pc, chunk_idx, combined_text>>
                  /\ HandlerFrame
            \/ \* not has_pagination: break
               /\ click_count' = click_count + 1
               /\ chunk_idx' = 2
               /\ pc' = "chunks"
               /\ UNCHANGED <<contents, combined_text>>
               /\ HandlerFrame
       ELSE /\ chunk_idx' = 2
            /\ pc' = "chunks"
            /\ UNCHANGED <<click_count, contents, combined_text>>
            /\ HandlerFrame

\* One iteration of "for chunk in contents": the chunk is analyzed again and
\* its jobs appended; after the last chunk scrape_jobs returns.
ChunkStep ==
    /\ pc = "chunks"
    /\ IF chunk_idx <= Len(contents)
       THEN /\ \/ \* chunk_analysis.success is false
                  UNCHANGED <<all_jobs, scraped_jobs>>
               \/ \E js \in JobLists :
                     /\ Len(all_scraped_jobs) + Len(all_jobs) + Len(js) <= MaxJobs
                     /\ all_jobs' = all_jobs \o listed_job_entries(js)
                     /\ scraped_jobs' = mark_jobs_scraped(listed_job_entries(js))
            /\ chunk_idx' = chunk_idx + 1
            /\ UNCHANGED <<pc, call, serviceVars, agentVars, callerVars, visited, current_visited, url,
                           nav_count, analysis, analyze_calls, browser_url, click_count,
                           combined_text, contents, detailVars, result, escaped>>
       ELSE /\ ReturnResult(ScrapeResult(all_jobs, current_visited, None, TRUE))
            /\ UNCHANGED <<trackerVars, current_visited, browser_url>>

\* ------------------------------------ TrackedJobScraper.scrape_job_details
\* ATSDetector.detect_ats(job_url, company_domain): a pure function of its
\* two arguments; the record stands for the five fields it returns
detect_ats(job_url, company_domain) ==
    [job_url |-> job_url, company_domain |-> company_domain]

\* job.details after the try block
DetailOutcomes == {"response", "empty_response", "analysis_error",
                   "exc_get_url", "exc_goto", "exc_extract"}

\* the job's url is rewritten before page.goto, after page.get_url
detail_url(job, outcome) ==
    IF outcome = "exc_get_url" THEN job.url
    ELSE normalize_full_path(job.url, extract_domain(browser_url))

\* _navigate completed: goto returned, the url is marked and appended
detail_navigated(outcome) == outcome \notin {"exc_get_url", "exc_goto"}

\* text_extracted was assigned in this iteration
detail_extracted(outcome) == outcome \in {"response", "empty_response", "analysis_error"}

\* "job_doc = job.details or {}; if not job_doc: continue"
detail_is_empty(outcome) == outcome = "empty_response"

\* job.details at the end of the iteration: the payload with the ATS fields
\* and the raw text merged in
merged_details(outcome, u, text) ==
    [payload |-> IF outcome \in {"exc_get_url", "exc_goto", "exc_extract"}
                 THEN "exception" ELSE outcome,
     ats |-> detect_ats(u, urls_idx),
     raw_text |-> text]

EmptyDetails == [payload |-> "empty_response"]

\* for i, job in enumerate(jobs): one iteration
DetailsStep ==
    /\ pc = "details"
    /\ job_i <= Len(all_scraped_jobs)
    /\ LET job == all_scraped_jobs[job_i] IN
       IF job.url = <<>> \/ (skip_already_scraped /\ is_visited(job.url))
       THEN /\ job_i' = job_i + 1
            /\ UNCHANGED <<pc, call, serviceVars, agentVars, callerVars, trackerVars, current_visited,
                           scrapeVars, browser_url, handlerVars, text_extracted,
                           skip_already_scraped, details_returned, result, escaped>>
       ELSE \E outcome \in DetailOutcomes :
            LET u == detail_url(job, outcome)
                text == PageText(u)
                bound == IF detail_extracted(outcome) THEN text ELSE text_extracted
            IN
            /\ IF detail_navigated(outcome)
               THEN /\ browser_url' = u
                    /\ visited' = mark_visited(u)
                    /\ current_visited' = Append(current_visited, u)
               ELSE UNCHANGED <<browser_url, visited, current_visited>>
            /\ IF detail_is_empty(outcome)
               THEN \* continue
                    /\ all_scraped_jobs' = [all_scraped_jobs EXCEPT ![job_i] =
                            [title |-> job.title, url |-> u, details |-> EmptyDetails]]
                    /\ text_extracted' = bound
                    /\ job_i' = job_i + 1
                    /\ UNCHANGED <<pc, call, serviceVars, agentVars, job_filtered, seed_idx, scraped_jobs,
                                   scrapeVars, handlerVars, skip_already_scraped,
                                   details_returned, result, escaped>>
               ELSE IF bound = "unbound"
               THEN \* job_doc["raw_text"] = text_extracted.structured_text raises
                    /\ Escape("scrape_job_details")
                    /\ UNCHANGED <<scraped_jobs, result>>
               ELSE /\ all_scraped_jobs' = [all_scraped_jobs EXCEPT ![job_i] =
                            [title |-> job.title, url |-> u,
                             details |-> merged_details(outcome, u, bound)]]
                    /\ text_extracted' = bound
                    /\ job_i' = job_i + 1
                    /\ UNCHANGED <<pc, call, serviceVars, agentVars, job_filtered, seed_idx, scraped_jobs,
                                   scrapeVars, handlerVars, skip_already_scraped,
                                   details_returned, result, escaped>>

\* all jobs were handled: scrape_job_details returns the list, main_scrapper
\* returns it, and process_urls_with_agent saves the jobs and records the
\* domain as completed
DetailsEnd ==
    /\ pc = "details"
    /\ job_i > Len(all_scraped_jobs)
    /\ details_returned' = TRUE
    /\ IF cancelled
       THEN /\ pc' = "agent_done"
            /\ agent_exit' = "returned"
            /\ UNCHANGED <<completed_urls, urls_idx>>
       ELSE /\ pc' = "agent_top"
            /\ completed_urls' = completed_urls \cup {urls_idx}
            /\ urls_idx' = urls_idx + 1
            /\ UNCHANGED agent_exit
    /\ ResetDetails
    /\ UNCHANGED <<call, serviceVars, cancelled, failed_urls, callerVars, trackerVars, current_visited,
                   scrapeVars, browser_url, handlerVars, result, escaped>>

\* the seed loop of main_scrapper is over: the details pass starts when jobs
\* were found; with no job process_urls_with_agent returns
SeedLoopEnd ==
    /\ pc = "seed_loop"
    /\ seed_idx > Len(job_filtered)
    /\ IF all_scraped_jobs # <<>>
       THEN /\ pc' = "details"
            /\ job_i' = 1
            /\ text_extracted' = "unbound"
            /\ \E skip \in BOOLEAN : skip_already_scraped' = skip
            /\ UNCHANGED agent_exit
       ELSE /\ pc' = "agent_done"
            /\ agent_exit' = "returned"
            /\ UNCHANGED <<job_i, text_extracted, skip_already_scraped>>
    /\ result' = NoResult
    /\ UNCHANGED <<call, serviceVars, cancelled, urls_idx, completed_urls, failed_urls, callerVars,
                   trackerVars, current_visited, scrapeVars, browser_url, handlerVars,
                   details_returned, escaped>>

\* ----------------------------------------------------------- cancel_task
\* positions inside one scrape_jobs call
ScrapePcs == {"main_loop", "analyzed", "load_more", "pagination", "chunks"}

InScrape == pc \in ScrapePcs

\* the innermost function the agent is suspended in
suspended_in ==
    IF InScrape THEN "scrape_jobs"
    ELSE IF pc = "details" THEN "scrape_job_details"
    ELSE IF pc = "seed_loop" THEN "main_scrapper"
    ELSE "process_urls_with_agent"

CancelTask_mut ==
    /\ pc # "agent_done"
    /\ ~cancelled
    /\ cancelled' = TRUE
    /\ UNCHANGED <<pc, call, serviceVars, agent_exit, urls_idx, completed_urls, failed_urls,
                   callerVars, trackerVars, current_visited, scrapeVars, browser_url,
                   handlerVars, detailVars, result, escaped>>

\* cancel_task sets the cancelled flag and cancels the asyncio task of the
\* agent: CancelledError is raised at the await the agent is suspended on,
\* unwinds scrape_jobs / scrape_job_details and main_scrapper (their locals
\* are gone, nothing is returned) and process_urls_with_agent re-raises it.
CancelTask ==
    /\ pc # "agent_done"
    /\ ~cancelled
    /\ cancelled' = TRUE
    /\ pc' = "agent_done"
    /\ agent_exit' = "CancelledError"
    /\ job_filtered' = <<>>
    /\ seed_idx' = 1
    /\ all_scraped_jobs' = <<>>
    /\ result' = NoResult
    /\ escaped' = suspended_in
    /\ ResetScrape
    /\ ResetDetails
    /\ UNCHANGED <<call, serviceVars, urls_idx, completed_urls, failed_urls, trackerVars,
                   current_visited, browser_url, details_returned>>

\* ------------------------------------------ URLTracker called directly
\* URLs a caller may hand to a URLTracker
UrlInputs ==
    {SeedA, SeedA2, PageOpen, JobRel,
     <<"https:", "/", "/", "A.COM", "/", "jobs", "#f">>,
     <<"https:", "/", "/", "jobs", ".", "a.com">>,
     <<"https:", "/", "/", "jobs", ".">> \o WWW \o <<"a.com">>,
     <<"https:", "/", "/", "w">> \o WWW \o <<"w", "w", ".", "a.com", "/", "jobs">>}

\* URL lists a caller may hand to filter_unvisited
UrlLists == {<<SeedA, SeedA2, PageOpen>>, <<JobRel, SeedA, JobRel>>}

\* URLTracker.mark_job_scraped: the new value of _scraped_jobs
mark_job_scraped(u) == scraped_jobs \cup {normalize_url(u)}

\* URLTracker.filter_unvisited
filter_unvisited(urls) == SelectSeq(urls, LAMBDA u : ~should_skip(u))

\* what a direct call of a tracker or text method leaves alone
LibFrame ==
    UNCHANGED <<pc, serviceVars, agentVars, callerVars, current_visited, scrapeVars,
                browser_url, handlerVars, detailVars, result, escaped>>

\* the tracker holds at most MaxMarks keys after the call
marks_within_bound(v, sj) == Cardinality(v) + Cardinality(sj) <= MaxMarks

\* tracker.mark_visited(u)
TrackerMarkVisited ==
    \E u \in UrlInputs :
        /\ marks_within_bound(mark_visited(u), scraped_jobs)
        /\ visited' = mark_visited(u)
        /\ call' = [op |-> "mark_visited", arg |-> u]
        /\ UNCHANGED scraped_jobs
        /\ LibFrame

\* tracker.mark_job_scraped(u)
TrackerMarkJobScraped ==
    \E u \in UrlInputs :
        /\ marks_within_bound(visited, mark_job_scraped(u))
        /\ scraped_jobs' = mark_job_scraped(u)
        /\ call' = [op |-> "mark_job_scraped", arg |-> u]
        /\ UNCHANGED visited
        /\ LibFrame

\* tracker.should_skip(u)
TrackerShouldSkip ==
    \E u \in UrlInputs :
        /\ call' = [op |-> "should_skip", arg |-> u, ret |-> should_skip(u)]
        /\ UNCHANGED trackerVars
        /\ LibFrame

\* tracker.filter_unvisited(urls)
TrackerFilterUnvisited ==
    \E urls \in UrlLists :
        /\ call' = [op |-> "filter_unvisited", arg |-> urls, ret |-> filter_unvisited(urls)]
        /\ UNCHANGED trackerVars
        /\ LibFrame

\* --------------------------------------- TextProcessor called directly
\* the characters of the texts
TextChars == {"x", "y", NL}

\* every text of at most n characters
TextsUpTo(n) == UNION {[1..k -> TextChars] : k \in 0..n}

\* navigation targets a classifier may return, and the hosts of the pages
\* they are resolved against
TargetInputs == {<<>>, RelOpen, <<"open">>, PageOpen, AtsPage,
                 <<"ftp:", "/", "/", "b.com", "/", "jobs">>}

HostInputs == {<<"a.com">>, <<"b.com">>}

\* a caller about to call append_non_overlapping(first, second) or
\* normalize_url(url, domain)
InitText ==
    /\ InitEngine
    /\ InitService
    /\ call \in {[op |-> "input", first |-> f, second |-> g] :
                    f \in TextsUpTo(MaxTextLen), g \in TextsUpTo(MaxTextLen)}
               \cup {[op |-> "input_url", arg |-> u, domain |-> d] :
                        u \in TargetInputs, d \in HostInputs}
               \cup {[op |-> "input_split", text |-> t, chunk_size |-> n] :
                        t \in TextsUpTo(MaxTextLen), n \in 1..ChunkSize}

\* TextProcessor.append_non_overlapping(first, second)
TextAppend ==
    /\ call.op = "input"
    /\ call' = [op |-> "append_non_overlapping",
                first |-> call.first, second |-> call.second,
                ret |-> append_non_overlapping(call.first, call.second,
                                               OverlapCheckSize)]
    /\ UNCHANGED trackerVars
    /\ LibFrame

\* TextProcessor.normalize_url(url, domain)
TextNormalizeUrl ==
    /\ call.op = "input_url"
    /\ call' = [op |-> "normalize_url", arg |-> call.arg, domain |-> call.domain,
                ret |-> TP_normalize_url(call.arg, call.domain)]
    /\ UNCHANGED trackerVars
    /\ LibFrame

\* ------------------------------------- JobPageAnalyzer called directly
\* for i in range(2)
max_attempts == 2

\* str(e) of what self._client.responses.create raises
ApiErrors == {"timeout", "rate limit", "connection error"}

\* response.output_text: three JSON objects, the empty object, a JSON array
\* and a text that is no JSON
OutputTexts == {"{page_category: jobs_listed}", "{page_category: not_job_related}",
                "{page_category: single_job_posting}", "{}", "[]", "not json"}

\* what one call of responses.create does: it raises or returns a text
AttemptOutcomes ==
    {[kind |-> "raise", error |-> e] : e \in ApiErrors}
    \cup {[kind |-> "output", text |-> t] : t \in OutputTexts}

\* json.loads(output): JSONDecodeError, a list or a dict
json_loads(t) ==
    IF t = "not json" THEN [ok |-> FALSE, error |-> "JSONDecodeError"]
    ELSE IF t = "[]" THEN [ok |-> TRUE, type |-> "list", value |-> t]
    ELSE [ok |-> TRUE, type |-> "dict", value |-> t]

\* the body of the try block for one attempt: the value it returns, or the
\* str(e) of the exception the except clause catches.  output.get(...) in
\* the "completed successfully" log line raises AttributeError on a str and
\* on a list
attempt_result(json_resonse, o) ==
    IF o.kind = "raise" THEN [returns |-> FALSE, error |-> o.error]
    ELSE IF ~json_resonse
    THEN [returns |-> FALSE, error |-> "'str' object has no attribute 'get'"]
    ELSE IF ~json_loads(o.text).ok
    THEN [returns |-> FALSE, error |-> json_loads(o.text).error]
    ELSE IF json_loads(o.text).type # "dict"
    THEN [returns |-> FALSE, error |-> "'list' object has no attribute 'get'"]
    ELSE [returns |-> TRUE, response |-> json_loads(o.text).value]

analyze_step_mut(c, o) ==
    LET r == attempt_result(c.json_resonse, o)
        log == Append(c.log, o)
    IN IF r.returns
       THEN [c EXCEPT !.st = "returned", !.log = log,
                      !.ret = [success |-> TRUE, response |-> r.response]]
       ELSE [c EXCEPT !.st = "returned", !.log = log, !.error = r.error,
                      !.ret = [success |-> FALSE, error |-> r.error]]

\* one iteration of "for i in range(2)" and, after the last one, the return
\* that follows the loop
analyze_step(c, o) ==
    LET r == attempt_result(c.json_resonse, o)
        log == Append(c.log, o)
    IN IF r.returns
       THEN [c EXCEPT !.st = "returned", !.log = log,
                      !.ret = [success |-> TRUE, response |-> r.response]]
       ELSE IF Len(log) < max_attempts
       THEN [c EXCEPT !.log = log, !.error = r.error]
       ELSE [c EXCEPT !.st = "returned", !.log = log, !.error = r.error,
                      !.ret = [success |-> FALSE, error |-> r.error]]

\* analyze(url, content, prompt_type, json_resonse) before its first attempt:
\* error = "", no call of the API yet (log).  Every caller leaves
\* json_resonse at its default or passes True
InitAnalyzer ==
    /\ InitEngine
    /\ InitService
    /\ call \in {[op |-> "analyze", st |-> "running", prompt_type |-> p,
                  json_resonse |-> j, log |-> <<>>, error |-> "",
                  ret |-> NoAnalysis] :
                    p \in {"structured", "unstructured"}, j \in {TRUE}}

\* JobPageAnalyzer.analyze: one attempt
AnalyzerAttempt ==
    /\ call.op = "analyze"
    /\ call.st = "running"
    /\ \E o \in AttemptOutcomes : call' = analyze_step(call, o)
    /\ UNCHANGED trackerVars
    /\ LibFrame

\* TextProcessor.split_into_chunks(text, chunk_size)
TextSplit ==
    /\ call.op = "input_split"
    /\ call' = [op |-> "split_into_chunks", text |-> call.text,
                chunk_size |-> call.chunk_size,
                ret |-> split_into_chunks(call.text, call.chunk_size)]
    /\ UNCHANGED trackerVars
    /\ LibFrame

\* what a step of the service layer leaves alone
EngineFrame ==
    UNCHANGED <<pc, call, agentVars, callerVars, trackerVars, current_visited,
                scrapeVars, browser_url, handlerVars, detailVars, result, escaped>>

\* ------------------------------------------------- app.py: the task API
TaskIds == 1..Len(tasks_db)

\* get_active_tasks: the tasks in status RUNNING or PENDING
get_active_tasks == {t \in TaskIds : tasks_db[t].status \in {"pending", "running"}}

\* check_can_start_new_task passes (it raises 409 otherwise)
check_can_start_new_task == get_active_tasks = {}

\* the record the start endpoints store for a new task
new_task(num_agents) ==
    [status |-> "pending", cancelled |-> FALSE, num_agents |-> num_agents,
     completed_urls |-> {}, failed_urls |-> {}]

\* one task that a start endpoint has just created
InitTask ==
    /\ InitEngine
    /\ call = NoCall
    /\ InitBatch
    /\ \E n \in 1..MaxAgents : tasks_db = <<new_task(n)>>
    /\ uploads = 0
    /\ run_pc = <<"scheduled">>
    /\ running_agent_tasks = << <<>> >>

\* tasks_db.set(task_id, {...}); background_tasks.add_task(run_scraping_task, ...)
create_task(num_agents) ==
    /\ tasks_db' = Append(tasks_db, new_task(num_agents))
    /\ run_pc' = Append(run_pc, "scheduled")
    /\ running_agent_tasks' = Append(running_agent_tasks, <<>>)

\* the requests the model lets in
requests_within_bound == Len(tasks_db) + uploads < MaxTasks

\* POST /scrape: the check and the creation of the task, with no await
\* between them
start_scraping ==
    /\ requests_within_bound
    /\ IF check_can_start_new_task
       THEN \E n \in 1..MaxAgents : create_task(n)
       ELSE UNCHANGED <<tasks_db, run_pc, running_agent_tasks>>
    /\ UNCHANGED <<uploads, batchVars>>
    /\ EngineFrame

\* POST /scrape/from-file up to "await read_spreadsheet(file, domain_column)"
start_scraping_from_file ==
    /\ requests_within_bound
    /\ IF check_can_start_new_task
       THEN uploads' = uploads + 1
       ELSE UNCHANGED uploads
    /\ UNCHANGED <<tasks_db, run_pc, running_agent_tasks, batchVars>>
    /\ EngineFrame

\* POST /scrape/from-file after read_spreadsheet: the task is created, or
\* the file could not be read (400 or 500) and no task is created
start_scraping_from_file_resume ==
    /\ uploads > 0
    /\ uploads' = uploads - 1
    /\ \/ \E n \in 1..MaxAgents : create_task(n)
       \/ UNCHANGED <<tasks_db, run_pc, running_agent_tasks>>
    /\ UNCHANGED batchVars
    /\ EngineFrame

\* run_scraping_task divides the MaxDomains URLs of a task across its
\* agents: the first len(urls) % num_agents chunks hold one URL more
chunk_start(num_agents, i) ==
    (i - 1) * (MaxDomains \div num_agents)
       + (IF i - 1 < MaxDomains % num_agents THEN i - 1 ELSE MaxDomains % num_agents)

chunk_end(num_agents, i) == chunk_start(num_agents, i + 1)

\* the chunks that are not empty, as sequences of URL numbers
url_chunks(num_agents) ==
    LET chunk(i) == [k \in 1..(chunk_end(num_agents, i) - chunk_start(num_agents, i))
                        |-> chunk_start(num_agents, i) + k]
        all == [i \in 1..num_agents |-> chunk(i)]
    IN SelectSeq(all, LAMBDA c : c # <<>>)

\* an agent task: process_urls_with_agent on its chunk
new_agent(chunk) == [st |-> "created", idx |-> 1, chunk |-> chunk]

agent_ended(a) == a.st \in {"returned", "cancelled"}

\* run_scraping_task up to "await asyncio.gather(*agent_tasks)"
run_scraping_task ==
    \E t \in TaskIds :
       /\ run_pc[t] = "scheduled"
       /\ \/ \* JobFileManager(...) raises: except Exception
             /\ tasks_db' = [tasks_db EXCEPT ![t].status =
                               IF tasks_db[t].cancelled THEN "cancelled" ELSE "failed"]
             /\ run_pc' = [run_pc EXCEPT ![t] = "finished"]
             /\ UNCHANGED running_agent_tasks
          \/ IF tasks_db[t].cancelled
             THEN /\ tasks_db' = [tasks_db EXCEPT ![t].status = "cancelled"]
                  /\ run_pc' = [run_pc EXCEPT ![t] = "finished"]
                  /\ UNCHANGED running_agent_tasks
             ELSE /\ tasks_db' = [tasks_db EXCEPT ![t].status = "running"]
                  /\ run_pc' = [run_pc EXCEPT ![t] = "gather"]
                  /\ running_agent_tasks' =
                        [running_agent_tasks EXCEPT ![t] =
                            [a \in 1..Len(url_chunks(tasks_db[t].num_agents)) |->
                                new_agent(url_chunks(tasks_db[t].num_agents)[a])]]
       /\ UNCHANGED <<uploads, batchVars>>
       /\ EngineFrame

\* process_urls_with_agent from its start to the first await main_scrapper
agent_start ==
    \E t \in TaskIds : \E a \in 1..Len(running_agent_tasks[t]) :
       /\ running_agent_tasks[t][a].st = "created"
       /\ running_agent_tasks' =
             [running_agent_tasks EXCEPT ![t][a].st =
                 IF tasks_db[t].cancelled THEN "returned" ELSE "scraping"]
       /\ UNCHANGED <<tasks_db, uploads, run_pc, batchVars>>
       /\ EngineFrame

\* how "await main_scrapper(...)" and the saving of its jobs may end
ScrapeOutcomes == {"jobs", "no_jobs", "exception"}

\* the agent after the URL it worked on: the next URL of the chunk, or the
\* end of the for loop
agent_after_url(a) ==
    IF a.idx + 1 > Len(a.chunk)
    THEN [a EXCEPT !.st = "returned"]
    ELSE [a EXCEPT !.idx = a.idx + 1]

\* process_urls_with_agent from the end of one await main_scrapper to the
\* next one (or to its return): no await in between
process_urls_with_agent ==
    \E t \in TaskIds : \E a \in 1..Len(running_agent_tasks[t]) :
    \E outcome \in ScrapeOutcomes :
       LET agent == running_agent_tasks[t][a]
           stop == outcome = "no_jobs" \/ tasks_db[t].cancelled
       IN /\ agent.st = "scraping"
          /\ running_agent_tasks' =
                [running_agent_tasks EXCEPT ![t][a] =
                    IF stop THEN [agent EXCEPT !.st = "returned"]
                    ELSE agent_after_url(agent)]
          /\ tasks_db' =
                IF stop THEN tasks_db
                ELSE IF outcome = "jobs"
                THEN [tasks_db EXCEPT ![t].completed_urls = @ \cup {agent.chunk[agent.idx]}]
                ELSE [tasks_db EXCEPT ![t].failed_urls = @ \cup {agent.chunk[agent.idx]}]
          /\ UNCHANGED <<uploads, run_pc, batchVars>>
          /\ EngineFrame

final_status_mut(t) ==
    IF \E a \in 1..Len(running_agent_tasks[t]) :
          running_agent_tasks[t][a].st = "cancelled"
    THEN "cancelled"
    ELSE "completed"

\* the status run_scraping_task stores after gather: CancelledError from a
\* cancelled agent leads to the except clause, otherwise the cancelled flag
\* is read
final_status(t) ==
    IF \E a \in 1..Len(running_agent_tasks[t]) :
          running_agent_tasks[t][a].st = "cancelled"
    THEN "cancelled"
    ELSE IF tasks_db[t].cancelled THEN "cancelled" ELSE "completed"

\* run_scraping_task after "await asyncio.gather(*agent_tasks)"
run_scraping_task_end ==
    \E t \in TaskIds :
       /\ run_pc[t] = "gather"
       /\ \A a \in 1..Len(running_agent_tasks[t]) :
             agent_ended(running_agent_tasks[t][a])
       /\ tasks_db' = [tasks_db EXCEPT ![t].status = final_status(t)]
       /\ run_pc' = [run_pc EXCEPT ![t] = "finished"]
       /\ running_agent_tasks' = [running_agent_tasks EXCEPT ![t] = <<>>]
       /\ UNCHANGED <<uploads, batchVars>>
       /\ EngineFrame

\* agent_task.cancel() for every agent that is not done: the cancellation
\* is delivered at the agent's next step
cancel_agents(agents) ==
    [a \in 1..Len(agents) |->
        IF agent_ended(agents[a]) THEN agents[a]
        ELSE [agents[a] EXCEPT !.st = "cancelling"]]

\* CancelledError is raised at the await the agent is suspended on (or at
\* its start): except asyncio.CancelledError: raise
agent_cancelled ==
    \E t \in TaskIds : \E a \in 1..Len(running_agent_tasks[t]) :
       /\ running_agent_tasks[t][a].st = "cancelling"
       /\ running_agent_tasks' = [running_agent_tasks EXCEPT ![t][a].st = "cancelled"]
       /\ UNCHANGED <<tasks_db, uploads, run_pc, batchVars>>
       /\ EngineFrame

\* the cancellation of the tasks of T: the flag, the status, the agents
cancel_tasks(T) ==
    /\ tasks_db' = [t \in TaskIds |->
                       IF t \in T
                       THEN [tasks_db[t] EXCEPT !.cancelled = TRUE,
                                                !.status = "cancelled"]
                       ELSE tasks_db[t]]
    /\ running_agent_tasks' =
          [t \in TaskIds |->
              IF t \in T THEN cancel_agents(running_agent_tasks[t])
              ELSE running_agent_tasks[t]]

\* POST /tasks/{task_id}/cancel: 400 unless the task is pending or running
cancel_task ==
    \E t \in TaskIds :
       /\ IF t \in get_active_tasks
          THEN cancel_tasks({t})
          ELSE UNCHANGED <<tasks_db, running_agent_tasks>>
       /\ UNCHANGED <<uploads, run_pc, batchVars>>
       /\ EngineFrame

\* POST /tasks/cancel-all
cancel_all_tasks ==
    /\ get_active_tasks # {}
    /\ cancel_tasks(get_active_tasks)
    /\ UNCHANGED <<uploads, run_pc, batchVars>>
    /\ EngineFrame

\* ------------------------------------- BatchExecutor and TaskManager
WorkerIds == 1..MaxWorkers

BatchTaskIds == 1..MaxBatchTasks

\* str(e) of the exceptions scrape_function may raise: a message, or the
\* empty string (str(asyncio.TimeoutError()) is '')
ErrorMessages == {"boom", ""}

\* the pymongo calls of execute_batch (start_batch, update_workers_active,
\* complete_batch) return or raise
DbOutcomes == {"ok", "error"}

\* the batches collection before the first batch
NoBatch ==
    [id |-> 0, status |-> "none", pending_urls |-> 0, running_urls |-> 0,
     completed_urls |-> 0, failed_urls |-> 0]

\* the tasks collection and the executor before the first batch
InitExec ==
    /\ InitEngine
    /\ call = NoCall
    /\ tasks_db = <<>>
    /\ uploads = 0
    /\ run_pc = <<>>
    /\ running_agent_tasks = <<>>
    /\ batch_tasks = [t \in BatchTaskIds |-> [status |-> "none", error |-> None]]
    /\ workers = [w \in WorkerIds |-> [st |-> "none", task |-> 0]]
    /\ running = FALSE
    /\ cancel_requested = FALSE
    /\ batch = NoBatch
    /\ active_batch_id = FALSE
    /\ current_workers = 0
    /\ exec_pc = "idle"

next_pending_task_mut ==
    IF \E t \in BatchTaskIds : batch_tasks[t].status = "pending"
    THEN CHOOSE t \in BatchTaskIds :
            /\ batch_tasks[t].status = "pending"
            /\ \A u \in BatchTaskIds : batch_tasks[u].status = "pending" => t >= u
    ELSE 0

\* TaskManager.get_next_pending_tasks(batch_id, count=1): the pending task
\* of lowest order, 0 if there is none
next_pending_task ==
    IF \E t \in BatchTaskIds : batch_tasks[t].status = "pending"
    THEN CHOOSE t \in BatchTaskIds :
            /\ batch_tasks[t].status = "pending"
            /\ \A u \in BatchTaskIds : batch_tasks[u].status = "pending" => t <= u
    ELSE 0

\* get_next_pending_tasks: "$inc": pending_urls -1, running_urls +1
hand_out_counters ==
    [batch EXCEPT !.pending_urls = @ - 1, !.running_urls = @ + 1]

complete_task_mut(task_id, error) ==
    [batch_tasks EXCEPT ![task_id] =
        [status |-> "completed", error |-> error]]

\* TaskManager.complete_task(task_id, error=error):
\* status = FAILED if error else COMPLETED
complete_task(task_id, error) ==
    [batch_tasks EXCEPT ![task_id] =
        [status |-> IF error # None /\ error # "" THEN "failed" ELSE "completed",
         error |-> error]]

\* complete_task: "$inc" of running_urls -1 and, "if error", failed_urls +1,
\* else completed_urls +1
complete_task_counters(error) ==
    IF error # None /\ error # ""
    THEN [batch EXCEPT !.running_urls = @ - 1, !.failed_urls = @ + 1]
    ELSE [batch EXCEPT !.running_urls = @ - 1, !.completed_urls = @ + 1]

\* BatchExecutor.worker at the top of its while loop, up to
\* "await self.scrape_function(url)"
worker_next ==
    \E w \in WorkerIds :
       /\ workers[w].st = "loop_top"
       /\ IF ~running \/ cancel_requested \/ next_pending_task = 0
          THEN /\ workers' = [workers EXCEPT ![w].st = "finished"]
               /\ UNCHANGED <<batch_tasks, batch>>
          ELSE /\ batch_tasks' = [batch_tasks EXCEPT ![next_pending_task].status = "running"]
               /\ batch' = hand_out_counters
               /\ workers' = [workers EXCEPT ![w] =
                                 [st |-> "scraping", task |-> next_pending_task]]
       /\ UNCHANGED <<running, cancel_requested, active_batch_id,
                      current_workers, exec_pc, appVars>>
       /\ EngineFrame

\* BatchExecutor.worker from the end of scrape_function to the sleep at the
\* end of the iteration: complete_task without error, or the except clause
worker ==
    \E w \in WorkerIds :
       /\ workers[w].st = "scraping"
       /\ \/ /\ batch_tasks' = complete_task(workers[w].task, None)
             /\ batch' = complete_task_counters(None)
          \/ \E e \in ErrorMessages :
                /\ batch_tasks' = complete_task(workers[w].task, e)
                /\ batch' = complete_task_counters(e)
       /\ workers' = [workers EXCEPT ![w] = [st |-> "loop_top", task |-> 0]]
       /\ UNCHANGED <<running, cancel_requested, active_batch_id,
                      current_workers, exec_pc, appVars>>
       /\ EngineFrame

\* TaskManager.request_cancellation: the pending tasks become cancelled
request_cancellation ==
    [t \in BatchTaskIds |->
        IF batch_tasks[t].status = "pending"
        THEN [batch_tasks[t] EXCEPT !.status = "cancelled"]
        ELSE batch_tasks[t]]

\* request_cancellation: result.modified_count of the update_many
cancelled_count ==
    Cardinality({t \in BatchTaskIds : batch_tasks[t].status = "pending"})

\* request_cancellation: the update of the batch document
request_cancellation_batch ==
    [batch EXCEPT !.status = "cancelled",
                  !.pending_urls = 0,
                  !.completed_urls = @ + cancelled_count]

\* BatchExecutor.stop: worker.cancel() for every worker that is not done;
\* CancelledError is no Exception, so the except clause of worker does not
\* run and the worker ends where it is
stop_workers ==
    [w \in WorkerIds |->
        IF workers[w].st \in {"none", "finished"} THEN workers[w]
        ELSE [workers[w] EXCEPT !.st = "cancelled"]]

\* POST /scrape/stop: "No active batch to stop" without an active batch,
\* else stop_current_batch
stop_current_batch ==
    /\ active_batch_id
    /\ ~cancel_requested
    /\ cancel_requested' = TRUE
    /\ batch_tasks' = request_cancellation
    /\ batch' = request_cancellation_batch
    /\ running' = FALSE
    /\ workers' = stop_workers
    /\ UNCHANGED <<active_batch_id, current_workers, exec_pc, appVars>>
    /\ EngineFrame

\* TaskManager.create_batch: the batch document
new_batch ==
    [id |-> batch.id + 1, status |-> "pending", pending_urls |-> MaxBatchTasks,
     running_urls |-> 0, completed_urls |-> 0, failed_urls |-> 0]

\* POST /scrape/batch: can_accept_batch, allocate_workers, then
\* run_batch_in_background: create_batch, a new BatchExecutor and the
\* execute_batch task.  create_batch raises with an active batch and the
\* handler releases the workers
start_batch_scrape ==
    /\ current_workers = 0
    /\ batch.id < MaxBatches
    /\ \E n \in WorkerIds :
          IF active_batch_id
          THEN UNCHANGED batchVars
          ELSE /\ current_workers' = n
               /\ active_batch_id' = TRUE
               /\ cancel_requested' = FALSE
               /\ batch' = new_batch
               /\ batch_tasks' = [t \in BatchTaskIds |->
                                     [status |-> "pending", error |-> None]]
               /\ workers' = [w \in WorkerIds |-> [st |-> "none", task |-> 0]]
               /\ running' = FALSE
               /\ exec_pc' = "scheduled"
    /\ UNCHANGED appVars
    /\ EngineFrame

\* TaskManager.complete_batch: the update of the batch document
complete_batch(error) ==
    [batch EXCEPT !.status =
        IF error THEN "failed"
        ELSE IF batch.failed_urls > 0 /\ batch.completed_urls > 0
             THEN "partially_completed"
        ELSE IF batch.failed_urls = MaxBatchTasks THEN "failed"
        ELSE "completed"]

\* execute_batch from a raising or returning complete_batch(batch_id) on:
\* "except Exception" calls complete_batch(batch_id, error=error_msg), which
\* touches the same collection and may raise as well; a complete_batch
\* that returns clears _active_batch_id and _cancel_requested
complete_batch_outcome(first_error) ==
    \/ /\ batch' = complete_batch(first_error)
       /\ active_batch_id' = FALSE
       /\ cancel_requested' = FALSE
    \/ /\ ~first_error
       /\ batch' = complete_batch(TRUE)
       /\ active_batch_id' = FALSE
       /\ cancel_requested' = FALSE
    \/ UNCHANGED <<batch, active_batch_id, cancel_requested>>

\* execute_batch: the finally clause
execute_batch_finally ==
    /\ running' = FALSE
    /\ workers' = [w \in WorkerIds |-> [st |-> "none", task |-> 0]]
    /\ current_workers' = 0
    /\ exec_pc' = "idle"

\* execute_batch from its first step to "await asyncio.gather(*self._workers)"
execute_batch ==
    /\ exec_pc = "scheduled"
    /\ \/ /\ running' = TRUE
          /\ batch' = [batch EXCEPT !.status = "running"]
          /\ workers' = [w \in WorkerIds |->
                            IF w <= current_workers
                            THEN [st |-> "loop_top", task |-> 0]
                            ELSE [st |-> "none", task |-> 0]]
          /\ exec_pc' = "gather"
          /\ UNCHANGED <<active_batch_id, cancel_requested, current_workers>>
       \/ /\ complete_batch_outcome(TRUE)
          /\ execute_batch_finally
    /\ UNCHANGED <<batch_tasks, appVars>>
    /\ EngineFrame

\* every worker task is done
workers_done == \A w \in WorkerIds : workers[w].st \in {"none", "finished", "cancelled"}

\* execute_batch after the gather: complete_batch and the finally clause
execute_batch_end ==
    /\ exec_pc = "gather"
    /\ workers_done
    /\ complete_batch_outcome(FALSE)
    /\ execute_batch_finally
    /\ UNCHANGED <<batch_tasks, appVars>>
    /\ EngineFrame

\* ------------------------------------------------------- specifications
Next ==
    \/ AgentTop
    \/ SeedSkip
    \/ ScrapeJobsCall
    \/ SeedLoopEnd
    \/ MainLoopAnalyze
    \/ BranchAnalysisFailed
    \/ BranchNotJobRelated
    \/ BranchSingleJob
    \/ BranchNavigate
    \/ BranchJobsListed
    \/ BranchOther
    \/ LoadMoreStep
    \/ PaginationStep
    \/ ChunkStep
    \/ DetailsStep
    \/ DetailsEnd

Spec == Init /\ [][Next]_vars

NextCancel == Next \/ CancelTask

SpecCancel == Init /\ [][NextCancel]_vars

\* one URLTracker under every sequence of direct calls
NextTracker ==
    \/ TrackerMarkVisited
    \/ TrackerMarkJobScraped
    \/ TrackerShouldSkip
    \/ TrackerFilterUnvisited

SpecTracker == Init /\ [][NextTracker]_vars

\* append_non_overlapping on every pair of texts, normalize_url on every
\* target and host, split_into_chunks on every text and chunk size
NextText ==
    \/ TextAppend
    \/ TextNormalizeUrl
    \/ TextSplit

SpecText == InitText /\ [][NextText]_vars

\* the task API of app.py under every interleaving of requests, background
\* runs and agents
NextApp ==
    \/ start_scraping
    \/ start_scraping_from_file
    \/ start_scraping_from_file_resume
    \/ run_scraping_task
    \/ agent_start
    \/ process_urls_with_agent
    \/ agent_cancelled
    \/ run_scraping_task_end
    \/ cancel_task
    \/ cancel_all_tasks

SpecApp == Init /\ [][NextApp]_vars

\* one task from its creation on: its background run, its agents and the
\* cancellation requests
NextTask ==
    \/ run_scraping_task
    \/ agent_start
    \/ process_urls_with_agent
    \/ agent_cancelled
    \/ run_scraping_task_end
    \/ cancel_task
    \/ cancel_all_tasks

SpecTask == InitTask /\ [][NextTask]_vars

\* one batch, its workers and a stop request
NextBatch ==
    \/ worker_next
    \/ worker
    \/ stop_current_batch

SpecBatch == Init /\ [][NextBatch]_vars

\* JobPageAnalyzer.analyze under every sequence of API outcomes
NextAnalyzer == AnalyzerAttempt

SpecAnalyzer == InitAnalyzer /\ [][NextAnalyzer]_vars

\* the batch API from the first request on: requests, execute_batch, its
\* workers and a stop request
NextExec ==
    \/ start_batch_scrape
    \/ execute_batch
    \/ worker_next
    \/ worker
    \/ execute_batch_end
    \/ stop_current_batch

SpecExec == InitExec /\ [][NextExec]_vars

\* the event loop runs every task that is ready, and scrape_function ends
SpecExecFair ==
    /\ SpecExec
    /\ WF_vars(execute_batch)
    /\ WF_vars(worker_next)
    /\ WF_vars(worker)
    /\ WF_vars(execute_batch_end)

\* ------------------------------------------------------------- properties
\* C1: within one scrape_jobs call nav_count never decreases and never
\* exceeds max_navigation, and at most max_navigation navigations follow the
\* seed navigation (every navigation appends one entry to _current_visited)
C1_NavigationBound ==
    /\ [](nav_count <= max_navigation)
    /\ [](InScrape => Len(current_visited) <= max_navigation + 1)
    /\ []((result.kind = "ScrapeResult") => Len(result.visited_urls) <= max_navigation + 1)
    /\ [][(InScrape /\ InScrape') => nav_count' >= nav_count]_vars

\* C1 witness: the limit is reached and the classifier still answers navigate
\* with a fresh, unvisited URL
C1_Witness ==
    /\ pc = "analyzed"
    /\ analysis.success = TRUE
    /\ analysis.response.next_action = "navigate"
    /\ analysis.response.page_category = ""
    /\ nav_count = max_navigation
    /\ has_url_target(analysis.response)
    /\ ~should_skip(resolved_nav_url(analysis.response))

\* C2 (as claimed): within one scrape_jobs call the visited list never holds
\* two entries with the same normalize_url value
C2_NoRevisit ==
    InScrape =>
        \A i, j \in 1..Len(current_visited) :
            i # j => normalize_url(current_visited[i]) # normalize_url(current_visited[j])

\* the longest text an extraction returns
LongestText == CHOOSE n \in 0..8 :
    /\ \E t \in ExtractTexts : Len(t) = n
    /\ \A t \in ExtractTexts : Len(t) <= n

\* what one click can add to the rank of a handler loop: the new text, the
\* blank-line separator and the iteration itself
ClickCost == LongestText + 3

\* the largest rank of a handler loop
HandlerRankMax == ClickCost * max_clicks + LongestText + 1

\* a natural number that every step inside one scrape_jobs call decreases
Rank ==
    CASE pc = "main_loop" ->
            HandlerRankMax + 1 + 2 * (max_navigation + 1 - analyze_calls)
      [] pc = "analyzed" ->
            HandlerRankMax + 2 + 2 * (max_navigation + 1 - analyze_calls)
      [] pc = "load_more" ->
            ClickCost * (max_clicks - click_count) + Len(combined_text) + 1
      [] pc = "pagination" ->
            ClickCost * (max_clicks - click_count) + Len(contents) + 1
      [] pc = "chunks" -> Len(contents) + 1 - chunk_idx
      [] OTHER -> 0

\* C3: the main loop makes at most max_navigation + 1 classification steps,
\* the pagination and load-more loops make at most max_clicks iterations,
\* and scrape_jobs terminates: every step inside the call decreases a
\* natural-number rank
C3_Terminates ==
    /\ [](analyze_calls <= max_navigation + 1)
    /\ [](click_count <= max_clicks)
    /\ [](InScrape => Rank >= 0)
    /\ [][(InScrape /\ InScrape') => Rank' < Rank]_vars

\* C3 witness: the last allowed classification step, and a handler loop that
\* used all its clicks
C3_Witness ==
    \/ /\ pc = "analyzed"
       /\ analyze_calls = max_navigation + 1
    \/ /\ pc \in {"load_more", "pagination"}
       /\ click_count = max_clicks

\* C4 (as claimed): when next_action is navigate and the resolved target
\* normalizes to a URL the tracker holds, that iteration ends scrape_jobs with
\* no navigation and no click, and the result is successful, without error,
\* and holds the jobs gathered so far (steps on which a collaborator raises
\* are left to C5)
C4_VisitedTargetEnds ==
    [][(/\ pc = "analyzed"
        /\ analysis.success = TRUE
        /\ analysis.response.next_action = "navigate"
        /\ resolved_nav_url(analysis.response) # <<>>
        /\ should_skip(resolved_nav_url(analysis.response))
        /\ escaped' = escaped)
       => (/\ pc' = "seed_loop"
           /\ result'.kind = "ScrapeResult"
           /\ result'.success = TRUE
           /\ result'.error = None
           /\ result'.jobs = all_jobs
           /\ browser_url' = browser_url
           /\ current_visited' = current_visited)]_vars

\* C5 (as claimed): no exception ever escapes scrape_jobs
C5_NoEscape == escaped # "scrape_jobs"

\* C6: when the analyzer call of a main-loop iteration returns success=false,
\* the next step of scrape_jobs is its return: no further analyzer call, no
\* navigation, and the result has success=false, the analyzer's error, the
\* jobs gathered so far and the URLs visited so far
C6_AnalysisFailure ==
    [][(pc = "analyzed" /\ analysis.success = FALSE)
       => (/\ pc' = "seed_loop"
           /\ result'.kind = "ScrapeResult"
           /\ result'.success = FALSE
           /\ result'.error = analysis.error
           /\ result'.jobs = all_jobs
           /\ result'.visited_urls = current_visited
           /\ all_scraped_jobs' = all_scraped_jobs \o all_jobs
           /\ browser_url' = browser_url
           /\ visited' = visited
           /\ current_visited' = current_visited)]_vars

\* C6 witness: a failure result returned after the traversal had already
\* left the seed page
C6_Witness ==
    /\ result.kind = "ScrapeResult"
    /\ result.success = FALSE
    /\ result.error = AnalysisFailed.error
    /\ Len(result.visited_urls) >= 2

C8_SelfReference ==
    [][(/\ pc = "analyzed"
        /\ analysis.success = TRUE
        /\ analysis.response.page_category = "single_job_posting"
        /\ pc' = "seed_loop")
       => \A k \in 1..Len(analysis.response.jobs_listed_on_page) :
             analysis.response.jobs_listed_on_page[k].job_url = <<>>
                => result'.jobs[Len(all_jobs) + k].url = browser_url]_vars

\* C9 (as claimed): no exception ever escapes scrape_job_details
C9_DetailsNeverRaise == escaped # "scrape_job_details"

\* C10 (as claimed): an iteration of scrape_job_details on a job that has a
\* URL and is not skipped leaves that job with details that hold the ATS
\* fields computed from the job's URL and the company domain, and keeps the
\* list's length and order (steps on which scrape_job_details raises are
\* left to C9)
C10_DetailsHaveAts ==
    [][(/\ pc = "details"
        /\ job_i <= Len(all_scraped_jobs)
        /\ all_scraped_jobs[job_i].url # <<>>
        /\ ~(skip_already_scraped /\ is_visited(all_scraped_jobs[job_i].url))
        /\ escaped' = escaped)
       => (/\ pc' = "details"
           /\ job_i' = job_i + 1
           /\ Len(all_scraped_jobs') = Len(all_scraped_jobs)
           /\ \A k \in 1..Len(all_scraped_jobs) :
                 /\ all_scraped_jobs'[k].title = all_scraped_jobs[k].title
                 /\ k # job_i => all_scraped_jobs'[k] = all_scraped_jobs[k]
           /\ all_scraped_jobs'[job_i].details # NoDetails
           /\ "ats" \in DOMAIN all_scraped_jobs'[job_i].details
           /\ all_scraped_jobs'[job_i].details.ats =
                 detect_ats(all_scraped_jobs'[job_i].url, urls_idx))]_vars

\* C11 (as claimed): when scrape_job_details navigates to a job whose URL is
\* relative, the URL it navigates to and stores for the job is the absolute
\* URL https://{host}{path}, path being the job's relative URL
C11_AbsoluteJobUrl ==
    [][(/\ pc = "details"
        /\ job_i <= Len(all_scraped_jobs)
        /\ startswith_slash(all_scraped_jobs[job_i].url)
        /\ current_visited' # current_visited)
       => LET u == all_scraped_jobs'[job_i].url IN
          /\ browser_url' = u
          /\ Len(u) > 3
          /\ SubSeq(u, 1, 3) = <<"https:", "/", "/">>
          /\ urlparse(u).netloc # <<>>
          /\ urlparse(u).path = all_scraped_jobs[job_i].url]_vars

\* C12: on one URLTracker, under every sequence of mark_visited,
\* mark_job_scraped, should_skip and filter_unvisited calls: right after
\* mark_visited(u) should_skip(v) is true for every v with the same
\* normalize_url value, a URL that should be skipped should be skipped ever
\* after, neither set loses an element, mark_visited of a URL whose key is
\* already held changes nothing, and filter_unvisited returns no URL that
\* should be skipped
C12_TrackerMonotone ==
    /\ [](call.op = "mark_visited"
            => \A v \in UrlInputs :
                  normalize_url(v) = normalize_url(call.arg) => should_skip(v))
    /\ [][\A v \in UrlInputs :
              should_skip(v) => (\/ normalize_url(v) \in visited'
                                 \/ normalize_url(v) \in scraped_jobs')]_vars
    /\ [][visited \subseteq visited' /\ scraped_jobs \subseteq scraped_jobs']_vars
    /\ [][(call'.op = "mark_visited" /\ normalize_url(call'.arg) \in visited)
            => (visited' = visited /\ scraped_jobs' = scraped_jobs)]_vars
    /\ [](call.op = "filter_unvisited"
            => \A i \in 1..Len(call.ret) : ~should_skip(call.ret[i]))

\* C12 witness: should_skip answers true for a URL that differs from the key
\* the tracker holds for it
C12_Witness ==
    /\ call.op = "should_skip"
    /\ call.ret = TRUE
    /\ normalize_url(call.arg) \in visited
    /\ normalize_url(call.arg) # call.arg
    /\ scraped_jobs = {}

\* C13 (as claimed): normalize_url is idempotent, so every key a tracker
\* holds is its own normalize_url value
C13_Idempotent ==
    \A k \in visited \cup scraped_jobs : normalize_url(k) = k

\* the host without one leading "www."
strip_leading_www(h) ==
    IF Len(h) >= 4 /\ SubSeq(h, 1, 4) = WWW THEN SubSeq(h, 5, Len(h)) ELSE h

\* the path without one trailing slash
strip_one_slash(path) ==
    IF path # <<>> /\ path[Len(path)] = "/"
    THEN SubSeq(path, 1, Len(path) - 1) ELSE path

\* the key C14 describes for a URL that has a scheme and a host
described_key(u) ==
    LET parsed == urlparse(lower(u))
    IN parsed.scheme \o <<"/", "/">> \o strip_leading_www(parsed.netloc)
                     \o strip_one_slash(parsed.path)

\* C14 (as claimed): the key mark_visited stores for a URL with a scheme and
\* a host is the lowercased URL with one leading "www." removed from the
\* host, query and fragment removed and one trailing slash removed
C14_KeyForm ==
    (/\ call.op = "mark_visited"
     /\ urlparse(call.arg).scheme # <<>>
     /\ urlparse(call.arg).netloc # <<>>)
    => described_key(call.arg) \in visited

\* C15: both sub-protocols are bounded by max_clicks.  handle_pagination
\* runs the next-page agent at most max_clicks times; every run that reports
\* has_pagination adds one chunk to the first one, so it returns between 1
\* and max_clicks + 1 chunks; handle_load_more clicks at most max_clicks
\* times
C15_ClickBound ==
    /\ [](click_count <= max_clicks)
    /\ [](pc = "pagination" =>
            Len(contents) >= 1 /\ Len(contents) <= click_count + 1)
    /\ [][(pc = "pagination" /\ pc' = "pagination") =>
            /\ click_count' = click_count + 1
            /\ Len(contents') = Len(contents) + 1]_vars
    /\ [][(pc = "pagination" /\ pc' = "chunks") =>
            /\ contents' = contents
            /\ Len(contents') >= 1
            /\ Len(contents') <= max_clicks + 1]_vars
    /\ [][(pc = "load_more" /\ pc' = "load_more") =>
            /\ click_count' = click_count + 1
            /\ click_count' <= max_clicks]_vars

\* handle_pagination has returned max_clicks + 1 chunks after max_clicks runs
\* of the agent, each of which reported has_pagination
C15_Witness ==
    /\ pc = "chunks"
    /\ chunk_idx = 2
    /\ combined_text = <<>>
    /\ click_count = max_clicks
    /\ Len(contents) = max_clicks + 1

\* C16 (as claimed): an exception raised inside a click/extract cycle of
\* handle_pagination or handle_load_more is swallowed, so a handler always
\* ends by returning its chunks to scrape_jobs
C16_HandlerSwallows ==
    [][(pc \in {"load_more", "pagination"}) =>
          pc' \in {"load_more", "pagination", "chunks"}]_vars

\* C17 (as claimed): for non-empty first and second and every k >= 1 such
\* that the last k characters of first are the first k characters of second,
\* append_non_overlapping(first, second) has length
\* len(first) + len(second) - k
C17_OverlapLength ==
    (/\ call.op = "append_non_overlapping"
     /\ call.first # <<>>
     /\ call.second # <<>>)
    => \A k \in 1..Len(call.first) :
          (/\ k <= Len(call.second)
           /\ last_chars(call.first, k) = SubSeq(call.second, 1, k))
          => Len(call.ret) = Len(call.first) + Len(call.second) - k

\* C18: a scrape_jobs call whose seed should_skip accepts returns jobs = [],
\* visited_urls = [] and job_detail_urls = [] at once: no navigation, no
\* extraction, no analysis, both tracker sets unchanged.  (The other step the
\* seed loop can take on such a seed is the caller's own "continue", which
\* leaves result alone.)
C18_SkipReturnsEmpty ==
    [][(/\ pc = "seed_loop"
        /\ seed_idx <= Len(job_filtered)
        /\ should_skip(job_filtered[seed_idx])
        /\ result' # result)
       => /\ result'.jobs = <<>>
          /\ result'.visited_urls = <<>>
          /\ result'.job_detail_urls = <<>>
          /\ browser_url' = browser_url
          /\ visited' = visited
          /\ scraped_jobs' = scraped_jobs
          /\ analysis' = analysis
          /\ analyze_calls' = analyze_calls
          /\ all_scraped_jobs' = all_scraped_jobs
          /\ pc' = "seed_loop"]_vars

\* the second seed is another spelling of the first, which was traversed:
\* the second call returned the empty result
C18_Witness ==
    /\ pc = "seed_loop"
    /\ seed_idx = 3
    /\ job_filtered[1] # job_filtered[2]
    /\ normalize_url(job_filtered[1]) = normalize_url(job_filtered[2])
    /\ normalize_url(job_filtered[1]) \in visited
    /\ result = skipped_result(job_filtered[2])

\* C19: a page classified jobs_listed, with next_action other than navigate
\* and neither pagination flag set, ends the call: the result holds one
\* JobEntry per entry of jobs_listed_on_page, in order, an entry without
\* job_url kept with url ''; every non-empty job_url is marked scraped; the
\* browser stays where it is
C19_ListedHarvest ==
    [][(/\ pc = "analyzed"
        /\ analysis.success = TRUE
        /\ analysis.response.page_category = "jobs_listed"
        /\ analysis.response.next_action # "navigate"
        /\ ~analysis.response.is_paginated_page
        /\ ~analysis.response.has_more_pages)
       => LET js == analysis.response.jobs_listed_on_page
          IN /\ pc' = "seed_loop"
             /\ escaped' = escaped
             /\ result'.kind = "ScrapeResult"
             /\ result'.success = TRUE
             /\ Len(result'.jobs) = Len(js)
             /\ \A k \in 1..Len(js) :
                   /\ result'.jobs[k].title = js[k].title
                   /\ result'.jobs[k].url = js[k].job_url
                   /\ js[k].job_url # <<>> =>
                         normalize_url(js[k].job_url) \in scraped_jobs'
             /\ scraped_jobs \subseteq scraped_jobs'
             /\ browser_url' = browser_url
             /\ visited' = visited
             /\ current_visited' = current_visited
             /\ result'.visited_urls = current_visited]_vars

\* the seed page listed a job without job_url and a job with one: both are
\* in the result, the second is marked scraped, one URL was visited
C19_Witness ==
    /\ pc = "seed_loop"
    /\ result.kind = "ScrapeResult"
    /\ result.jobs = <<JobEntry(NoUrlJob.title, <<>>), JobEntry(Job1.title, JobRel)>>
    /\ Len(result.visited_urls) = 1
    /\ normalize_url(JobRel) \in scraped_jobs

\* the non-empty urls of a job list, in order
non_empty_urls(js) ==
    LET kept == SelectSeq(js, LAMBDA j : j.url # <<>>)
    IN [k \in 1..Len(kept) |-> kept[k].url]

\* C20: in the result of a traversal that was not skipped, job_detail_urls
\* is the non-empty urls of jobs in order, and visited_urls is the list of
\* the URLs the browser was taken to, the seed first; at every
\* classification step that list has navigationCount + 1 entries
C20_ResultLists ==
    /\ []((result.kind = "ScrapeResult" /\ result.visited_urls # <<>>) =>
            result.job_detail_urls = non_empty_urls(result.jobs))
    /\ [](pc \in {"main_loop", "analyzed"} =>
            /\ Len(current_visited) = nav_count + 1
            /\ current_visited[1] = job_filtered[seed_idx]
            /\ current_visited[Len(current_visited)] = browser_url)
    /\ [][(pc \in ScrapePcs /\ pc' \in ScrapePcs) =>
            \/ current_visited' = current_visited /\ browser_url' = browser_url
            \/ /\ current_visited' = Append(current_visited, browser_url')
               /\ nav_count' = nav_count + 1]_vars
    /\ [][(pc \in ScrapePcs /\ pc' = "seed_loop") =>
            /\ result'.visited_urls = current_visited
            /\ result'.visited_urls[1] = job_filtered[seed_idx]]_vars

\* seed, then one navigation, then two jobs of which one has no url
C20_Witness ==
    /\ result.kind = "ScrapeResult"
    /\ Len(result.visited_urls) = 2
    /\ result.visited_urls[1] = job_filtered[1]
    /\ Len(result.jobs) = 2
    /\ Len(result.job_detail_urls) = 1

\* C21: a page classified not_job_related, and a page of any category other
\* than single_job_posting and jobs_listed (a missing category included)
\* whose next_action is not navigate, ends the loop on that iteration: no
\* navigation, and the result is successful and holds the jobs accumulated
\* so far
C21_FailSafeEnd ==
    [][(/\ pc = "analyzed"
        /\ analysis.success = TRUE
        /\ \/ analysis.response.page_category = "not_job_related"
           \/ /\ analysis.response.page_category \notin
                    {"single_job_posting", "jobs_listed"}
              /\ analysis.response.next_action # "navigate")
       => /\ pc' = "seed_loop"
          /\ escaped' = escaped
          /\ result'.kind = "ScrapeResult"
          /\ result'.success = TRUE
          /\ result'.error = None
          /\ result'.jobs = all_jobs
          /\ result'.visited_urls = current_visited
          /\ browser_url' = browser_url
          /\ current_visited' = current_visited
          /\ visited' = visited
          /\ scraped_jobs' = scraped_jobs]_vars

\* the page reached by one navigation has no category and asks for no
\* navigation: the classification step is about to end the traversal
C21_Witness ==
    /\ pc = "analyzed"
    /\ analysis.success = TRUE
    /\ analysis.response.page_category = ""
    /\ analysis.response.next_action # "navigate"
    /\ nav_count = 1
    /\ Len(current_visited) = 2

\* C22 (as claimed): whatever the combination of classifier fields, when an
\* iteration ends the traversal the jobs of its jobs_listed_on_page are in
\* the returned jobs
C22_JobsHarvested ==
    [][(/\ pc = "analyzed"
        /\ analysis.success = TRUE
        /\ pc' = "seed_loop")
       => \A k \in 1..Len(analysis.response.jobs_listed_on_page) :
             \E i \in 1..Len(result'.jobs) :
                result'.jobs[i].title =
                   analysis.response.jobs_listed_on_page[k].title]_vars

\* the absolute URL C23 describes for a target and a host
toAbsolute(target, host) ==
    IF urlparse(target).scheme # <<>> THEN target
    ELSE IF startswith_slash(target) THEN <<"https:", "/", "/">> \o host \o target
    ELSE <<"https:", "/", "/">> \o host \o <<"/">> \o target

\* C23 (as claimed): a non-empty navigation target is resolved against the
\* host of the current page: unchanged when it has a scheme,
\* https://{host}{target} when it starts with '/', https://{host}/{target}
\* otherwise
C23_ToAbsolute ==
    (call.op = "normalize_url" /\ call.arg # <<>>)
    => call.ret = toAbsolute(call.arg, call.domain)

\* C24 (as claimed): when the scraping of a domain ends with an exception,
\* its task is recorded as failed with the error message, the worker goes on
\* with the loop, and the other workers are left as they are
C24_FailureRecorded ==
    [][\A w \in WorkerIds :
          (/\ workers[w].st = "scraping"
           /\ workers'[w].st = "loop_top"
           /\ batch_tasks'[workers[w].task].error # None)
          => /\ batch_tasks'[workers[w].task].status = "failed"
             /\ \A v \in WorkerIds \ {w} : workers'[v] = workers[v]]_vars

\* C25 (as claimed): at most one task is pending or running
C25_OneActiveTask ==
    Cardinality(get_active_tasks) <= 1

\* C26 (as claimed): after a stop request no task stays in status running:
\* a running task still has the worker that completes it
C26_RunningTasksComplete ==
    cancel_requested =>
       \A t \in BatchTaskIds :
          batch_tasks[t].status = "running" =>
             \E w \in WorkerIds : workers[w].st = "scraping" /\ workers[w].task = t

\* C27: once a cancellation was accepted the task's status is CANCELLED and
\* stays so, whatever its background run and its agents do afterwards, and
\* nothing is added to its completed_urls or failed_urls
C27_CancelledStays ==
    /\ [](\A t \in TaskIds : tasks_db[t].cancelled => tasks_db[t].status = "cancelled")
    /\ [][\A t \in TaskIds :
            tasks_db[t].cancelled =>
               /\ tasks_db'[t].cancelled
               /\ tasks_db'[t].status = "cancelled"
               /\ tasks_db'[t].completed_urls = tasks_db[t].completed_urls
               /\ tasks_db'[t].failed_urls = tasks_db[t].failed_urls]_vars

\* a task was cancelled after one of its URLs had been completed, and its
\* background run has ended
C27_Witness ==
    \E t \in TaskIds :
       /\ tasks_db[t].cancelled
       /\ tasks_db[t].completed_urls # {}
       /\ run_pc[t] = "finished"
       /\ tasks_db[t].status = "cancelled"

\* C28: the branches are tested in the order not_job_related,
\* single_job_posting, navigate, jobs_listed.  A not_job_related or
\* single_job_posting page whose next_action is navigate ends the call with
\* no navigation; a jobs_listed page whose next_action is navigate is left
\* (or the loop ends) with none of its jobs harvested on that iteration
C28_BranchOrder ==
    /\ [][(/\ pc = "analyzed"
           /\ analysis.success = TRUE
           /\ analysis.response.page_category \in
                 {"not_job_related", "single_job_posting"}
           /\ analysis.response.next_action = "navigate")
          => /\ pc' = "seed_loop"
             /\ result'.kind = "ScrapeResult"
             /\ browser_url' = browser_url
             /\ current_visited' = current_visited]_vars
    /\ [][(/\ pc = "analyzed"
           /\ analysis.success = TRUE
           /\ analysis.response.page_category = "jobs_listed"
           /\ analysis.response.next_action = "navigate")
          => /\ scraped_jobs' = scraped_jobs
             /\ pc' \in {"main_loop", "seed_loop", "agent_top"}
             /\ pc' = "main_loop" => all_jobs' = all_jobs
             /\ pc' = "seed_loop" => result'.jobs = all_jobs]_vars

\* a jobs_listed page with jobs asks for a navigation that is still allowed
C28_Witness ==
    /\ pc = "analyzed"
    /\ analysis.success = TRUE
    /\ analysis.response.page_category = "jobs_listed"
    /\ analysis.response.next_action = "navigate"
    /\ analysis.response.jobs_listed_on_page # <<>>
    /\ ~nav_limit_reached
    /\ has_url_target(analysis.response)

\* s is a prefix of t
is_prefix(s, t) == Len(s) <= Len(t) /\ SubSeq(t, 1, Len(s)) = s

C30_NoDuplicateJobs ==
    result.kind = "ScrapeResult" =>
       \A i, j \in 1..Len(result.jobs) :
          i # j => result.jobs[i] # result.jobs[j]

\* tasks of the batch in status st
tasks_in(st) == {t \in BatchTaskIds : batch_tasks[t].status = st}

\* C31: with several workers on one batch a task is handed to one worker
\* only, the pending task of lowest order first, and no task is handed out a
\* second time; a worker that finds the cancellation flag set at the top of
\* its loop takes no task
C31_HandOut ==
    /\ [](\A w1, w2 \in WorkerIds :
            (w1 # w2 /\ workers[w1].st = "scraping" /\ workers[w2].st = "scraping")
               => workers[w1].task # workers[w2].task)
    /\ [](\A w \in WorkerIds :
            workers[w].st = "scraping" => batch_tasks[workers[w].task].status = "running")
    /\ [][\A t \in BatchTaskIds :
            (batch_tasks'[t].status = "running" /\ batch_tasks[t].status # "running")
               => /\ batch_tasks[t].status = "pending"
                  /\ \A u \in BatchTaskIds : u < t => batch_tasks[u].status # "pending"
                  /\ Cardinality({w \in WorkerIds :
                        /\ workers'[w].st = "scraping"
                        /\ workers'[w].task = t}) = 1]_vars
    /\ [][batch'.id = batch.id =>
             \A t \in BatchTaskIds :
                batch_tasks[t].status # "pending" => batch_tasks'[t].status # "pending"]_vars
    /\ [][\A w \in WorkerIds :
            (workers[w].st = "loop_top" /\ cancel_requested)
               => workers'[w].st # "scraping"]_vars

\* two workers scrape the first two tasks while the third is still pending
C31_Witness ==
    /\ Cardinality({w \in WorkerIds : workers[w].st = "scraping"}) >= 2
    /\ \E w \in WorkerIds : workers[w].st = "scraping" /\ workers[w].task = 1
    /\ \E w \in WorkerIds : workers[w].st = "scraping" /\ workers[w].task = 2
    /\ tasks_in("pending") # {}

\* C32 (as claimed): a batch whose status is cancelled keeps that status
C32_CancelledBatchStays ==
    [][(batch.status = "cancelled" /\ batch'.id = batch.id)
          => batch'.status = "cancelled"]_vars

\* C33 (as claimed): the four counters of the batch are non-negative and
\* equal the number of tasks in the status they count
C33_CountersMatch ==
    /\ batch.pending_urls >= 0 /\ batch.pending_urls = Cardinality(tasks_in("pending"))
    /\ batch.running_urls >= 0 /\ batch.running_urls = Cardinality(tasks_in("running"))
    /\ batch.completed_urls >= 0
    /\ batch.completed_urls = Cardinality(tasks_in("completed"))
    /\ batch.failed_urls >= 0 /\ batch.failed_urls = Cardinality(tasks_in("failed"))

\* C34 (as claimed): every batch that became active is followed by a state
\* with no active batch id and no allocated worker
C34_EventuallyReleased ==
    active_batch_id ~> (~active_batch_id /\ current_workers = 0)

\* C35 (as claimed): an agent that has returned while its task was not
\* cancelled has processed every URL of its chunk, and each of them is in
\* the completed_urls or the failed_urls of the task
C35_ChunkProcessed ==
    \A t \in TaskIds : \A a \in 1..Len(running_agent_tasks[t]) :
       (running_agent_tasks[t][a].st = "returned" /\ ~tasks_db[t].cancelled)
          => \A i \in 1..Len(running_agent_tasks[t][a].chunk) :
                running_agent_tasks[t][a].chunk[i]
                   \in tasks_db[t].completed_urls \cup tasks_db[t].failed_urls

\* C36 (as claimed): the raw_text in the details of a job is the text of
\* the job's own page
C36_OwnRawText ==
    \A i \in 1..Len(all_scraped_jobs) :
       "raw_text" \in DOMAIN all_scraped_jobs[i].details
          => all_scraped_jobs[i].details.raw_text = PageText(all_scraped_jobs[i].url)

\* scrape_jobs returns ScrapeResult(visited_urls=self._current_visited): the
\* result holds the list object itself, and the attribute keeps referring
\* to it until the next scrape_jobs call binds a new list.  When the
\* details pass starts after a call that navigated (the skip return hands
\* out a new empty list instead), and as long as no job page was visited,
\* current_visited is the content of the visited_urls of that result
result_holds_current_visited ==
    /\ pc = "details"
    /\ text_extracted = "unbound"
    /\ current_visited # <<>>

\* C37 (as claimed): the visited_urls of a returned ScrapeResult is not
\* changed by a following scrape_job_details call on the same scraper
C37_VisitedUrlsFrozen ==
    [][(result_holds_current_visited /\ pc' = "details")
          => current_visited' = current_visited]_vars

\* the API call returned a text that is a JSON object
usable(o) ==
    /\ o.kind = "output"
    /\ json_loads(o.text).ok
    /\ json_loads(o.text).type = "dict"

\* C38: analyze calls the API at most twice; it returns success=true with
\* the response of the first usable attempt and makes no attempt after it;
\* after two attempts that failed it returns success=false with the error
\* of the second; it always returns
C38_AnalyzeRetries ==
    /\ [](call.op = "analyze" =>
            /\ Len(call.log) <= max_attempts
            /\ call.st \in {"running", "returned"}
            /\ \A k \in 1..(Len(call.log) - 1) : ~usable(call.log[k])
            /\ call.st = "running" =>
                  /\ Len(call.log) < max_attempts
                  /\ \A k \in 1..Len(call.log) : ~usable(call.log[k])
            /\ (call.st = "returned" /\ call.ret.success = TRUE) =>
                  /\ usable(call.log[Len(call.log)])
                  /\ call.ret.response = json_loads(call.log[Len(call.log)].text).value
            /\ (call.st = "returned" /\ call.ret.success = FALSE) =>
                  /\ Len(call.log) = max_attempts
                  /\ ~usable(call.log[max_attempts])
                  /\ call.ret.error =
                        attempt_result(call.json_resonse, call.log[max_attempts]).error)
    /\ [][(call.op = "analyze" /\ call.st = "returned") => call' = call]_vars

\* the first attempt raised, the second returned no JSON: two attempts, and
\* the failure carries the error of the second
C38_Witness ==
    /\ call.op = "analyze"
    /\ call.st = "returned"
    /\ call.ret.success = FALSE
    /\ Len(call.log) = 2
    /\ call.log[1].kind = "raise"
    /\ call.log[2].kind = "output"
    /\ call.ret.error = "JSONDecodeError"

\* the chunks joined in order
RECURSIVE concat(_)
concat(cs) == IF cs = <<>> THEN <<>> ELSE Head(cs) \o concat(Tail(cs))

\* number of characters before chunk i
offset(cs, i) == Len(concat(SubSeq(cs, 1, i - 1)))

\* C39: for every text and chunk_size >= 1, split_into_chunks returns
\* chunks that joined in order are the text, each of at most chunk_size
\* characters; every pass of its loop takes at least one character (so the
\* loop ends); and a chunk that is not the last ends right after a newline
\* when the chunk_size characters from its start hold a newline that is not
\* the first of them
C39_SplitLossless ==
    call.op = "split_into_chunks" =>
       LET text == call.text
           n == call.chunk_size
           cs == call.ret
       IN /\ concat(cs) = text
          /\ \A i \in 1..Len(cs) : Len(cs[i]) <= n
          /\ Len(cs) >= 1
          /\ Len(text) > n => \A i \in 1..Len(cs) : cs[i] # <<>>
          /\ \A i \in 1..(Len(cs) - 1) :
                (\E j \in 2..n : text[offset(cs, i) + j] = NL)
                   => cs[i][Len(cs[i])] = NL

\* a text of four characters and chunk_size 3: the first chunk ends at the
\* newline in the middle of its window
C39_Witness ==
    /\ call.op = "split_into_chunks"
    /\ call.chunk_size = 3
    /\ call.text = <<"x", NL, "y", "x">>
    /\ call.ret = << <<"x", NL>>, <<"y", "x">> >>

====
